---------------------------- MODULE Spec2Model ----------------------------
(***************************************************************************)
(* Signaling core of the SFU conferencing server.                          *)
(*                                                                         *)
(*   src/server/routes.ts  (lines 1-481)  rooms, session gateway, handlers *)
(*   src/unnamed/part_001                 the mediasoup facade             *)
(*                                                                         *)
(* The server is one Node.js process.  A handler runs without interruption *)
(* until it reaches an `await`.  Two kinds of await are told apart:        *)
(*   - an I/O await (the facade is waiting for the mediasoup worker):      *)
(*     any other event may be served before the handler resumes;           *)
(*   - a microtask await (the awaited facade function has no await of its  *)
(*     own on that path): only other pending continuations, and further    *)
(*     frames the `ws` receiver emits from the same read of the same       *)
(*     socket, run before the handler resumes.                             *)
(* When the facade function awaits the worker, its continuation and the    *)
(* continuation of the handler that awaits the facade function are one     *)
(* step.                                                                   *)
(***************************************************************************)
EXTENDS Integers, Sequences, FiniteSets, TLC

(* -------- bounds of the model -------- *)
NumSessions == 2
MaxTransports == 3
MaxProducers == 2
MaxConsumers == 2
MaxInflight == 2
MaxMembers == 3
MaxSockets == 7
MaxTimers == 6

Sessions == 1..NumSessions

(* routes.ts:34 *)
defaultRoom == "default-room"
(* room ids a JOIN frame may carry; "" stands for an absent roomId *)
RoomIds == {defaultRoom, "r1"}
JoinRoomIds == {"", "r1"}
NoRoom == "null"

VARIABLES
  sock,                  \* session -> "idle" | "open" | "closing" | "closed"  (socket.readyState)
  isAlive,               \* session -> BOOLEAN                                 (socket.isAlive)
  currentRoom,           \* session -> room id or NoRoom      (closure variable currentRoom)
  rooms,                 \* room id -> (participant id -> participant record)
  h,                     \* session -> sequence of suspended handlers
  cur,                   \* session whose frame opened the running macrotask, while continuations are pending
  participantTransports, \* facade: participant id -> [sendTransport, recvTransport, consumers]
  producers,             \* facade: ids in the producers map
  consumers,             \* facade: ids in the consumers map
  transports,            \* mediasoup: transport id -> [pid, dir, closed, connected]
  producerObjs,          \* mediasoup: producer id -> [transport, closed, by]
  consumerObjs,          \* mediasoup: consumer id -> [producerId, transport, closed]
  out,                   \* messages written to sockets by the last step
  silentTicks,           \* heartbeat ticks since the session last sent a PONG or a frame
  owed,                  \* participants attached to a room since removeParticipant was last called for them
  capsJoined,            \* participants whose JOIN with rtpCapabilities was processed
  seen,                  \* seen[b][a]: what b, present since, was told of a's producer and a's leaving
  client                 \* the signaling client (part_002): its module variables, its sockets and timers

vars == <<sock, isAlive, currentRoom, rooms, h, cur, participantTransports,
          producers, consumers, transports, producerObjs, consumerObjs,
          out, silentTicks, owed, capsJoined, seen, client>>

facadeVars == <<participantTransports, producers, consumers, transports,
                producerObjs, consumerObjs>>

(* -------- helpers -------- *)

(* a participant record as created by the first JOIN: { socket } *)
NewParticipant == [producerId |-> 0, rtpCapabilities |-> FALSE, isKilled |-> FALSE]

(* a suspended handler: op, the await it is suspended at, and its locals *)
Handler(op, pc, room, tid, rt, prod, alias) ==
  [op |-> op, pc |-> pc, room |-> room, tid |-> tid, rt |-> rt,
   prod |-> prod, alias |-> alias]

MicroPcs == {"L2", "L3", "C2m"}
IoPcs == {"J2", "P2", "C2", "C3", "T2"}

MicroPendingIn(hh) ==
  \E s \in Sessions : \E i \in 1..Len(hh[s]) : hh[s][i].pc \in MicroPcs

MicroPending == MicroPendingIn(h)

RemoveAt(seq, i) == SubSeq(seq, 1, i - 1) \o SubSeq(seq, i + 1, Len(seq))

Restrict(f, S) == [x \in S |-> f[x]]

Put(f, k, v) == [x \in DOMAIN f \cup {k} |-> IF x = k THEN v ELSE f[x]]

RECURSIVE SeqOf(_)
SeqOf(S) ==
  IF S = {} THEN <<>>
  ELSE LET m == CHOOSE x \in S : \A y \in S : x <= y
       IN <<m>> \o SeqOf(S \ {m})

Msg(to, type, prod, about, flag) ==
  [to |-> to, type |-> type, prod |-> prod, about |-> about, flag |-> flag]

(* routes.ts:459 sendToClient: written only when the socket is OPEN *)
sendToClient(to, type, prod, about, flag) ==
  IF sock[to] = "open" THEN <<Msg(to, type, prod, about, flag)>> ELSE <<>>

(* the texts of the error frames: routes.ts:360 and 403, routes.ts:210,
   routes.ts:434 (the prefix of the text) *)
NotInARoom == "Not in a room"
FailedToProcess == "Failed to process request"
FailedToCreateConsumer == "Failed to create consumer"

(* the error written to a socket kept in a variable all connections share (the
   socket of the last connection still open) instead of the handler's own *)
sendErrorSharedSocket(to, error) ==
  IF \E x \in Sessions : sock[x] = "open"
  THEN <<[to |-> CHOOSE x \in Sessions :
                   sock[x] = "open" /\ \A y \in Sessions : sock[y] = "open" => y <= x,
          type |-> "error", prod |-> 0, about |-> 0, flag |-> FALSE, error |-> error]>>
  ELSE << >>

(* routes.ts:358-361, 208-211, 432-435 sendToClient(socket, { type: 'error', error }) *)
sendError(to, error) ==
  IF sock[to] = "open"
  THEN <<[to |-> to, type |-> "error", prod |-> 0, about |-> 0, flag |-> FALSE,
          error |-> error]>>
  ELSE << >>

(* the loop of routes.ts:468 with a send that throws on a socket that is not
   OPEN: the members after it are not written to *)
RECURSIVE notifySeqAborting(_, _, _, _, _)
notifySeqAborting(ids, type, prod, about, flag) ==
  IF ids = <<>> THEN <<>>
  ELSE IF sock[Head(ids)] # "open" THEN <<>>
  ELSE sendToClient(Head(ids), type, prod, about, flag)
         \o notifySeqAborting(Tail(ids), type, prod, about, flag)

RECURSIVE notifySeq(_, _, _, _, _)
notifySeq(ids, type, prod, about, flag) ==
  IF ids = <<>> THEN <<>>
  ELSE sendToClient(Head(ids), type, prod, about, flag)
         \o notifySeq(Tail(ids), type, prod, about, flag)

(* notifyParticipants with the comparison of routes.ts:468 inverted: only the
   sender is written to *)
notifyParticipantsSenderOnly(room, senderId, type, prod, about, flag) ==
  notifySeq(SeqOf(DOMAIN room \cap {senderId}), type, prod, about, flag)

(* notifyParticipants without the comparison of routes.ts:468: the sender is
   written to as well *)
notifyParticipantsAll(room, senderId, type, prod, about, flag) ==
  notifySeq(SeqOf(DOMAIN room), type, prod, about, flag)

(* routes.ts:466 notifyParticipants: every entry of the room's map but the sender *)
notifyParticipants(room, senderId, type, prod, about, flag) ==
  notifySeq(SeqOf(DOMAIN room \ {senderId}), type, prod, about, flag)


(* -------- what each client has been told (history, not program state) -------- *)

(* per pair: d follows new-producer then disconnect, p follows new-producer then
   producer-closed: "none", "told" (new-producer received), "once", "twice" *)
NotSeen == [d |-> "none", p |-> "none"]

Bump(x) == IF x = "told" THEN "once" ELSE IF x = "once" THEN "twice" ELSE x

TrackOne(sn, m) ==
  IF m.about \notin Sessions \/ m.about = m.to THEN sn
  ELSE IF m.type = "new-producer"
  THEN [sn EXCEPT ![m.to][m.about] = [d |-> "told", p |-> "told"]]
  ELSE IF m.type = "disconnect"
  THEN [sn EXCEPT ![m.to][m.about].d = Bump(@)]
  ELSE IF m.type = "producer-closed"
  THEN [sn EXCEPT ![m.to][m.about].p = Bump(@)]
  ELSE sn

RECURSIVE Track(_, _)
Track(sn, msgs) ==
  IF msgs = << >> THEN sn ELSE Track(TrackOne(sn, Head(msgs)), Tail(msgs))

Forget(sn, gone) ==
  [b \in Sessions |-> IF b \in gone THEN [a \in Sessions |-> NotSeen] ELSE sn[b]]

(* -------- the facade (src/unnamed/part_001) as operators on its state -------- *)

(* mediasoup ids are unique random strings.  An id is modelled as the number
   10 * (participant it was created for) + (its rank among that participant's) *)
Id(pid, k) == 10 * pid + k
Owner(id) == id \div 10
Rank(id) == id % 10
Exists(objs, id) == Owner(id) \in Sessions /\ Rank(id) \in 1..Len(objs[Owner(id)])
Obj(objs, id) == objs[Owner(id)][Rank(id)]
Count(objs) == Cardinality({x \in Sessions \X (1..9) : x[2] <= Len(objs[x[1]])})
CloseAll(objs, ids) ==
  [p \in Sessions |-> [k \in 1..Len(objs[p]) |->
     IF Id(p, k) \in ids THEN [objs[p][k] EXCEPT !.closed = TRUE] ELSE objs[p][k]]]

Facade ==
  [pt |-> participantTransports, producers |-> producers, consumers |-> consumers,
   transports |-> transports, producerObjs |-> producerObjs, consumerObjs |-> consumerObjs]

SetFacade(F) ==
  /\ participantTransports' = F.pt
  /\ producers' = F.producers
  /\ consumers' = F.consumers
  /\ transports' = F.transports
  /\ producerObjs' = F.producerObjs
  /\ consumerObjs' = F.consumerObjs

(* part_001:146 "Initialize participant state if needed" *)
NewParticipantData == [sendTransport |-> 0, recvTransport |-> 0, consumers |-> << >>]

EnsureData(pt, pid) ==
  IF pid \in DOMAIN pt THEN pt ELSE Put(pt, pid, NewParticipantData)

NewTransport(dir) == [dir |-> dir, closed |-> FALSE, connected |-> FALSE]

(* part_001:130 createTransport, from the return of router.createWebRtcTransport on *)
createTransport(F, participantId) ==
  LET t == Id(participantId, Len(F.transports[participantId]) + 1)
      pt1 == EnsureData(F.pt, participantId)
  IN [F EXCEPT !.transports[participantId] = Append(@, NewTransport("send")),
               !.pt = [pt1 EXCEPT ![participantId].sendTransport = t]]

(* part_001:169 createConsumerTransport, from the return of router.createWebRtcTransport on *)
createConsumerTransport(F, participantId) ==
  LET t == Id(participantId, Len(F.transports[participantId]) + 1)
      pt1 == EnsureData(F.pt, participantId)
  IN [F EXCEPT !.transports[participantId] = Append(@, NewTransport("recv")),
               !.pt = [pt1 EXCEPT ![participantId].recvTransport = t]]

(* part_001:175 the early return of createConsumerTransport *)
HasRecvTransport(pt, pid) == pid \in DOMAIN pt /\ pt[pid].recvTransport # 0

(* part_001:228 connectTransport: the scan of the per-participant slots *)
FindTransport(pt, tid) ==
  tid # 0 /\ \E p \in DOMAIN pt : pt[p].sendTransport = tid \/ pt[p].recvTransport = tid

(* part_001:259 produce: the scan of the send slots *)
FindSendTransport(pt, tid) ==
  tid # 0 /\ \E p \in DOMAIN pt : pt[p].sendTransport = tid

(* mediasoup: a producer the router still has *)
ProducerLive(F, p) ==
  /\ Exists(F.producerObjs, p)
  /\ ~Obj(F.producerObjs, p).closed
  /\ ~Obj(F.transports, Obj(F.producerObjs, p).transport).closed

(* part_001:271 produce, from the return of transport.produce on; by: the session
   whose frame asked for it (history, not program state) *)
produce(F, tid, by) ==
  LET p == Id(Owner(tid), Len(F.producerObjs[Owner(tid)]) + 1)
  IN [F EXCEPT !.producerObjs[Owner(tid)] =
                   Append(@, [transport |-> tid, closed |-> FALSE, by |-> by]),
               !.producers = @ \cup {p}]

(* part_001:334 closeProducer *)
closeProducer(F, producerId) ==
  LET hit == {c \in F.consumers : Obj(F.consumerObjs, c).producerId = producerId}
  IN [F EXCEPT
        !.producerObjs = CloseAll(@, {producerId} \cap F.producers),
        !.producers = @ \ {producerId},
        !.consumerObjs = CloseAll(@, hit),
        !.consumers = @ \ hit]

(* part_001:351 removeParticipant *)
removeParticipant(F, participantId) ==
  IF participantId \notin DOMAIN F.pt THEN F
  ELSE LET d == F.pt[participantId]
           mine == {d.consumers[k] : k \in DOMAIN d.consumers}
       IN [F EXCEPT
             !.consumerObjs = CloseAll(@, mine),
             !.consumers = @ \ mine,
             !.transports = CloseAll(@, {d.sendTransport, d.recvTransport}),
             !.pt = Restrict(@, DOMAIN @ \ {participantId})]

(* part_001:296-311 consume: the checks made before recvTransport.consume is awaited *)
ConsumeChecks(F, participantId, producerId, capsOk) ==
  IF participantId \notin DOMAIN F.pt THEN "not found"
  ELSE IF F.pt[participantId].recvTransport = 0 THEN "not found"
  ELSE IF ~(ProducerLive(F, producerId) /\ capsOk) THEN "Cannot consume producer"
  ELSE "ok"

(* part_001:313-322 consume, from the return of recvTransport.consume on;
   stored says whether participantData is still the object in participantTransports *)
consume(F, participantId, producerId, rt, stored) ==
  LET c == Id(participantId, Len(F.consumerObjs[participantId]) + 1)
      F1 == [F EXCEPT
               !.consumerObjs[participantId] =
                   Append(@, [producerId |-> producerId, transport |-> rt, closed |-> FALSE]),
               !.consumers = @ \cup {c}]
  IN IF stored
     THEN [F1 EXCEPT !.pt[participantId].consumers = Put(@, producerId, c)]
     ELSE F1

(* -------- the signaling client (src/unnamed/part_002:1171-1500) -------- *)

(* part_002:1185 *)
MAX_RECONNECT_ATTEMPTS == 5

(* part_002:1171-1190 the module variables before connect() is called.
   sockets: readyState of every WebSocket made so far, socket: the index of the
   one in the variable socket (0: null); timers: every setTimeout made so far,
   "pending", "fired" or "cleared", reconnectTimeout: the index of the one in
   the variable (0: null); localStream: whether it is set;
   disconnected: disconnect() was the application's last call (history, not
   program state) *)
NewClient ==
  [socket |-> 0, sockets |-> << >>, timers |-> << >>,
   isConnecting |-> FALSE, reconnectTimeout |-> 0, reconnectAttempts |-> 0,
   localStream |-> FALSE, disconnected |-> FALSE]

(* part_002:1416-1500 disconnect(): the timer in reconnectTimeout is cleared,
   isConnecting is reset, a socket that is OPEN is closed, socket = null *)
disconnect(c) ==
  LET c1 == IF c.reconnectTimeout # 0
            THEN [c EXCEPT !.timers[c.reconnectTimeout] =
                               IF @ = "pending" THEN "cleared" ELSE @,
                           !.reconnectTimeout = 0]
            ELSE c
      c2 == IF c1.socket # 0 /\ c1.sockets[c1.socket] = "open"
            THEN [c1 EXCEPT !.sockets[c1.socket] = "closing"]
            ELSE c1
  IN [c2 EXCEPT !.isConnecting = FALSE, !.socket = 0]

(* part_002:1198-1214 connect(stream) up to the assignment of the handlers *)
connect(c) ==
  LET d == disconnect([c EXCEPT !.localStream = TRUE])
  IN [d EXCEPT !.sockets = Append(@, "connecting"), !.socket = Len(d.sockets) + 1]

(* part_002:1215-1220 socket.onopen: the counters are reset *)
onopen(c) == [c EXCEPT !.isConnecting = FALSE, !.reconnectAttempts = 0]

(* socket.onclose scheduling a reconnect whatever reconnectAttempts is *)
oncloseUnbounded(c) ==
  IF ~c.isConnecting /\ c.localStream
  THEN [c EXCEPT !.isConnecting = TRUE,
                 !.timers = Append(@, "pending"),
                 !.reconnectTimeout = Len(c.timers) + 1]
  ELSE c

(* part_002:1360-1379 socket.onclose: the reconnect is scheduled *)
onclose(c) ==
  IF ~c.isConnecting /\ c.reconnectAttempts < MAX_RECONNECT_ATTEMPTS /\ c.localStream
  THEN [c EXCEPT !.isConnecting = TRUE,
                 !.timers = Append(@, "pending"),
                 !.reconnectTimeout = Len(c.timers) + 1]
  ELSE c

(* part_002:1379-1403 the callback of the reconnect timer *)
reconnect(c) ==
  LET c1 == [c EXCEPT !.reconnectAttempts = @ + 1]
  IN IF c1.localStream THEN connect(c1) ELSE [c1 EXCEPT !.isConnecting = FALSE]

(* -------- the state after registerRoutes (routes.ts:36-86) -------- *)

Init ==
  /\ sock = [s \in Sessions |-> "idle"]
  /\ isAlive = [s \in Sessions |-> FALSE]
  /\ currentRoom = [s \in Sessions |-> NoRoom]
  /\ rooms = (defaultRoom :> << >>)
  /\ h = [s \in Sessions |-> << >>]
  /\ cur = 0
  /\ participantTransports = << >>
  /\ producers = {}
  /\ consumers = {}
  /\ transports = [s \in Sessions |-> << >>]
  /\ producerObjs = [s \in Sessions |-> << >>]
  /\ consumerObjs = [s \in Sessions |-> << >>]
  /\ out = << >>
  /\ silentTicks = [s \in Sessions |-> 0]
  /\ owed = {}
  /\ capsJoined = {}
  /\ seen = [b \in Sessions |-> [a \in Sessions |-> NotSeen]]
  /\ client = NewClient

(* -------- scheduling -------- *)

AllHandlers == {<<s, i>> \in Sessions \X (1..MaxInflight) : i <= Len(h[s])}

CountPc(pcs) == Cardinality({x \in AllHandlers : h[x[1]][x[2]].pc \in pcs})

(* an event of its own macrotask: no continuation is pending *)
Macro == ~MicroPending

(* routes.ts:107 a frame of session s is emitted: in a macrotask of its own, or
   in the macrotask that emitted the previous frame of the same socket *)
Frame(s) ==
  /\ sock[s] = "open"
  /\ Len(h[s]) < MaxInflight
  /\ MicroPending => cur = s

(* what every step leaves: the suspended handlers, the messages written, and cur,
   kept only while continuations are pending; gone: the sessions that stop being
   present in their room (they close, leave or attach anew) *)
StepF(hh, msgs, c, gone) ==
  /\ h' = hh
  /\ out' = msgs
  /\ cur' = IF MicroPendingIn(hh) THEN c ELSE 0
  /\ seen' = Track(Forget(seen, gone), msgs)
  /\ client' = client

Step(hh, msgs, c) == StepF(hh, msgs, c, {})

Heard(s) == silentTicks' = [silentTicks EXCEPT ![s] = 0]

(* the captured participant object of the suspended leave handlers of pid is no
   longer the one in the map of room r *)
Unalias(hs, r) ==
  [i \in 1..Len(hs) |->
     IF hs[i].pc = "L2" /\ hs[i].room = r THEN [hs[i] EXCEPT !.alias = FALSE] ELSE hs[i]]

(* participantData captured by the suspended consume handlers of pid was deleted *)
Orphan(hs) ==
  [i \in 1..Len(hs) |->
     IF hs[i].pc = "C3" THEN [hs[i] EXCEPT !.alias = FALSE] ELSE hs[i]]

(* -------- session gateway -------- *)

(* routes.ts:88-104 wss.on('connection') *)
Connect(s) ==
  /\ Macro
  /\ sock[s] = "idle"
  /\ sock' = [sock EXCEPT ![s] = "open"]
  /\ isAlive' = [isAlive EXCEPT ![s] = TRUE]
  /\ Heard(s)
  /\ Step(h, << >>, 0)
  /\ UNCHANGED <<currentRoom, rooms, facadeVars, owed, capsJoined>>

(* routes.ts:94-97 socket.on('pong') *)
Pong(s) ==
  /\ Macro
  /\ sock[s] = "open"
  /\ isAlive' = [isAlive EXCEPT ![s] = TRUE]
  /\ Heard(s)
  /\ Step(h, << >>, 0)
  /\ UNCHANGED <<sock, currentRoom, rooms, facadeVars, owed, capsJoined>>

(* routes.ts:61-74 heartbeatInterval over wss.clients *)
Clients == {s \in Sessions : sock[s] \in {"open", "closing"}}

(* the heartbeat without the call of socket.terminate() at routes.ts:65 *)
TerminatedNever == {}

Terminated == {s \in Clients : isAlive[s] = FALSE}

Heartbeat ==
  /\ Macro
  /\ Clients # {}
  /\ sock' = [s \in Sessions |-> IF s \in Terminated /\ sock[s] = "open" THEN "closing" ELSE sock[s]]
  /\ isAlive' = [s \in Sessions |-> IF s \in Clients THEN FALSE ELSE isAlive[s]]
  /\ silentTicks' = [s \in Sessions |->
        IF sock[s] = "open" /\ silentTicks[s] < 2 THEN silentTicks[s] + 1 ELSE silentTicks[s]]
  /\ StepF(h, << >>, 0, Terminated)
  /\ UNCHANGED <<currentRoom, rooms, facadeVars, owed, capsJoined>>

(* the 'ping' case without the assignment of socket.isAlive at routes.ts:165 *)
RecvPingNoRefresh(s) ==
  /\ Frame(s)
  /\ Heard(s)
  /\ Step(h, sendToClient(s, "pong", 0, 0, FALSE), s)
  /\ UNCHANGED <<sock, isAlive, currentRoom, rooms, facadeVars, owed, capsJoined>>

(* routes.ts:163-171 case 'ping' *)
RecvPing(s) ==
  /\ Frame(s)
  /\ isAlive' = [isAlive EXCEPT ![s] = TRUE]
  /\ Heard(s)
  /\ Step(h, sendToClient(s, "pong", 0, 0, FALSE), s)
  /\ UNCHANGED <<sock, currentRoom, rooms, facadeVars, owed, capsJoined>>


(* -------- JOIN (routes.ts:227-311) -------- *)

(* routes.ts:229-238 the room a JOIN frame names, created on demand *)
JoinRoom(roomId) == IF roomId = "" THEN defaultRoom ELSE roomId

GetOrCreate(r) == IF r \in DOMAIN rooms THEN rooms ELSE Put(rooms, r, << >>)

(* the loop of routes.ts:257-282 sending participant-killed with the flag as it
   is on the record, set or not, instead of testing it (routes.ts:271) *)
RECURSIVE ExistingProducersFlagSent(_, _, _)
ExistingProducersFlagSent(ids, room, participantId) ==
  IF ids = << >> THEN << >>
  ELSE LET existingId == Head(ids)
           existingParticipant == room[existingId]
       IN (IF existingParticipant.producerId # 0
           THEN sendToClient(participantId, "new-producer",
                             existingParticipant.producerId, existingId, FALSE)
                \o sendToClient(participantId, "participant-killed", 0, existingId,
                                existingParticipant.isKilled)
           ELSE << >>)
          \o ExistingProducersFlagSent(Tail(ids), room, participantId)

(* routes.ts:257-282 what the joiner is told about the producers on record *)
RECURSIVE ExistingProducers(_, _, _)
ExistingProducers(ids, room, participantId) ==
  IF ids = << >> THEN << >>
  ELSE LET existingId == Head(ids)
           existingParticipant == room[existingId]
       IN (IF existingParticipant.producerId # 0
           THEN sendToClient(participantId, "new-producer",
                             existingParticipant.producerId, existingId, FALSE)
                \o (IF existingParticipant.isKilled
                    THEN sendToClient(participantId, "participant-killed", 0, existingId, TRUE)
                    ELSE << >>)
           ELSE << >>)
          \o ExistingProducers(Tail(ids), room, participantId)

TransportBudget == Count(transports) + CountPc({"J2", "C2"}) < MaxTransports

(* routes.ts:241-287 JOIN with rtpCapabilities from a participant in the named room *)
RecvJoinCaps(s, roomId) ==
  LET r == JoinRoom(roomId)
      rooms1 == GetOrCreate(r)
      room1 == [rooms1[r] EXCEPT ![s].rtpCapabilities = TRUE]
  IN /\ Frame(s)
     /\ s \in DOMAIN rooms1[r]
     /\ rooms' = [rooms1 EXCEPT ![r] = room1]
     /\ Heard(s)
     /\ Step([h EXCEPT ![s] = Unalias(@, r)],
             ExistingProducers(SeqOf(DOMAIN room1 \ {s}), room1, s), s)
     /\ capsJoined' = capsJoined \cup {s}
     /\ UNCHANGED <<sock, isAlive, currentRoom, facadeVars, owed>>

(* routes.ts:290-299 JOIN that attaches: no rtpCapabilities, or the participant is
   not in the named room; suspended in createTransport *)
RecvJoin(s, roomId, caps) ==
  LET r == JoinRoom(roomId)
      rooms1 == GetOrCreate(r)
  IN /\ Frame(s)
     /\ ~(caps /\ s \in DOMAIN rooms1[r])
     /\ TransportBudget
     /\ rooms' = [rooms1 EXCEPT ![r] = Put(@, s, NewParticipant)]
     /\ currentRoom' = [currentRoom EXCEPT ![s] = r]
     /\ owed' = owed \cup {s}
     /\ Heard(s)
     /\ StepF([h EXCEPT ![s] = Append(Unalias(@, r),
                          Handler("join", "J2", NoRoom, 0, 0, 0, FALSE))],
             << >>, s, {s})
     /\ UNCHANGED <<sock, isAlive, facadeVars, capsJoined>>

(* routes.ts:299-310 createTransport returned: the welcome *)
ResumeJoin(s, i) ==
  /\ Macro
  /\ i \in 1..Len(h[s])
  /\ h[s][i].pc = "J2"
  /\ SetFacade(createTransport(Facade, s))
  /\ Step([h EXCEPT ![s] = RemoveAt(@, i)],
          sendToClient(s, "welcome", 0, 0, FALSE), 0)
  /\ UNCHANGED <<sock, isAlive, currentRoom, rooms, silentTicks, owed, capsJoined>>

(* -------- LEAVE and close (routes.ts:314-353) -------- *)

(* routes.ts:315-348 handleLeave up to its first await *)
LeaveStart(s, op, c) ==
  LET r == currentRoom[s]
      F == Facade
  IN IF r = NoRoom
     THEN /\ StepF(h, << >>, c, {s})
          /\ UNCHANGED <<rooms, facadeVars, owed>>
     ELSE IF s \in DOMAIN rooms[r] /\ rooms[r][s].producerId # 0
     THEN \* await closeProducer
          /\ SetFacade(closeProducer(F, rooms[r][s].producerId))
          /\ StepF([h EXCEPT ![s] = Append(@,
                   Handler(op, "L2", r, 0, 0, rooms[r][s].producerId, TRUE))],
                  << >>, c, {s})
          /\ UNCHANGED <<rooms, owed>>
     ELSE \* await removeParticipant
          LET room1 == Restrict(rooms[r], DOMAIN rooms[r] \ {s})
          IN /\ rooms' = [rooms EXCEPT ![r] = room1]
             /\ SetFacade(removeParticipant(F, s))
             /\ owed' = owed \ {s}
             /\ StepF([h EXCEPT ![s] = Append(Orphan(Unalias(@, r)),
                      Handler(op, "L3", NoRoom, 0, 0, 0, FALSE))],
                     IF s \in DOMAIN rooms[r]
                     THEN notifyParticipants(room1, s, "disconnect", 0, s, FALSE)
                     ELSE << >>, c, {s})

(* routes.ts:116-118 case LEAVE *)
RecvLeave(s) ==
  /\ Frame(s)
  /\ LeaveStart(s, "leave", s)
  /\ Heard(s)
  /\ UNCHANGED <<sock, isAlive, currentRoom, capsJoined>>

(* the peer closes the connection: readyState leaves OPEN, 'close' is emitted later *)
ClientClose(s) ==
  /\ Macro
  /\ sock[s] = "open"
  /\ sock' = [sock EXCEPT ![s] = "closing"]
  /\ StepF(h, << >>, 0, {s})
  /\ UNCHANGED <<isAlive, currentRoom, rooms, facadeVars, silentTicks, owed, capsJoined>>

(* routes.ts:216-219 socket.on('close'), after the peer's close or socket.terminate() *)
CloseEvent(s) ==
  /\ Macro
  /\ sock[s] = "closing"
  /\ Len(h[s]) < MaxInflight
  /\ sock' = [sock EXCEPT ![s] = "closed"]
  /\ LeaveStart(s, "close", 0)
  /\ UNCHANGED <<isAlive, currentRoom, silentTicks, capsJoined>>


(* routes.ts:206-212 the catch of the message handler; the close handler has none *)
Caught(s, op) ==
  IF op = "close" THEN << >> ELSE sendError(s, FailedToProcess)

(* routes.ts:325-348 closeProducer returned *)
ResumeLeaveL2(s, i) ==
  LET hd == h[s][i]
      r == currentRoom[s]
      producerId == IF hd.alias THEN rooms[hd.room][s].producerId ELSE hd.prod
  IN /\ i \in 1..Len(h[s])
     /\ hd.pc = "L2"
     /\ IF r = NoRoom
        THEN \* currentRoom is null: notifyParticipants throws
             /\ Step([h EXCEPT ![s] = RemoveAt(@, i)], Caught(s, hd.op), cur)
             /\ UNCHANGED <<rooms, facadeVars, owed>>
        ELSE LET room1 == Restrict(rooms[r], DOMAIN rooms[r] \ {s})
                 hs == Orphan(Unalias(h[s], r))
             IN /\ rooms' = [rooms EXCEPT ![r] = room1]
                /\ SetFacade(removeParticipant(Facade, s))
                /\ owed' = owed \ {s}
                /\ Step([h EXCEPT ![s] = [hs EXCEPT ![i] = Handler(hd.op, "L3", NoRoom, 0, 0, 0, FALSE)]],
                        notifyParticipants(rooms[r], s, "producer-closed", producerId, s, FALSE)
                          \o notifyParticipants(room1, s, "disconnect", 0, s, FALSE),
                        cur)
     /\ UNCHANGED <<sock, isAlive, currentRoom, silentTicks, capsJoined>>

(* routes.ts:350-351 removeParticipant returned *)
ResumeLeaveL3(s, i) ==
  /\ i \in 1..Len(h[s])
  /\ h[s][i].pc = "L3"
  /\ currentRoom' = [currentRoom EXCEPT ![s] = NoRoom]
  /\ Step([h EXCEPT ![s] = RemoveAt(@, i)], << >>, cur)
  /\ UNCHANGED <<sock, isAlive, rooms, facadeVars, silentTicks, owed, capsJoined>>

(* -------- PRODUCE (routes.ts:356-396) -------- *)

TransportIds == {0} \cup {Id(p, k) : p \in Sessions, k \in 1..MaxTransports}

ProducerBudget == Count(producerObjs) + CountPc({"P2"}) < MaxProducers

(* handleProduce announcing before the await of routes.ts:366: new-producer is
   written, with the id the producer is going to get, when the frame arrives *)
RecvProduceEager(s, tid) ==
  /\ Frame(s)
  /\ Heard(s)
  /\ IF currentRoom[s] = NoRoom
     THEN Step(h, sendError(s, NotInARoom), s)
     ELSE IF ~FindSendTransport(participantTransports, tid)
     THEN Step(h, sendError(s, FailedToProcess), s)
     ELSE /\ ProducerBudget
          /\ Step([h EXCEPT ![s] = Append(@,
                   Handler("produce", "P2", NoRoom, tid, 0, 0, FALSE))],
                  notifyParticipants(rooms[currentRoom[s]], s, "new-producer",
                                     Id(Owner(tid), Len(producerObjs[Owner(tid)]) + 1),
                                     s, FALSE),
                  s)
  /\ UNCHANGED <<sock, isAlive, currentRoom, rooms, facadeVars, owed, capsJoined>>

(* routes.ts:357-370 and part_001:255-275: up to transport.produce *)
RecvProduce(s, tid) ==
  /\ Frame(s)
  /\ Heard(s)
  /\ IF currentRoom[s] = NoRoom
     THEN Step(h, sendError(s, NotInARoom), s)
     ELSE IF ~FindSendTransport(participantTransports, tid)
     THEN Step(h, sendError(s, FailedToProcess), s)
     ELSE /\ ProducerBudget
          /\ Step([h EXCEPT ![s] = Append(@,
                   Handler("produce", "P2", NoRoom, tid, 0, 0, FALSE))], << >>, s)
  /\ UNCHANGED <<sock, isAlive, currentRoom, rooms, facadeVars, owed, capsJoined>>

(* part_001:277-281 and routes.ts:372-395: transport.produce returned or threw *)
ResumeProduce(s, i, ok) ==
  LET hd == h[s][i]
      r == currentRoom[s]
      F1 == produce(Facade, hd.tid, s)
      producerId == Id(Owner(hd.tid), Len(producerObjs[Owner(hd.tid)]) + 1)
  IN /\ Macro
     /\ i \in 1..Len(h[s])
     /\ hd.pc = "P2"
     /\ IF ~ok
        THEN /\ Step([h EXCEPT ![s] = RemoveAt(@, i)],
                     sendError(s, FailedToProcess), 0)
             /\ UNCHANGED <<rooms, facadeVars>>
        ELSE IF r = NoRoom
        THEN \* currentRoom is null: currentRoom.participants throws
             /\ SetFacade(F1)
             /\ Step([h EXCEPT ![s] = RemoveAt(@, i)],
                     sendError(s, FailedToProcess), 0)
             /\ UNCHANGED rooms
        ELSE /\ SetFacade(F1)
             /\ rooms' = IF s \in DOMAIN rooms[r]
                         THEN [rooms EXCEPT ![r][s].producerId = producerId]
                         ELSE rooms
             /\ Step([h EXCEPT ![s] = RemoveAt(@, i)],
                     sendToClient(s, "produce-response", producerId, 0, FALSE)
                       \o notifyParticipants(rooms[r], s, "new-producer", producerId, s, FALSE),
                     0)
     /\ UNCHANGED <<sock, isAlive, currentRoom, silentTicks, owed, capsJoined>>


(* -------- REQUEST_CONSUME (routes.ts:399-452) -------- *)

ProducerIds == {Id(p, k) : p \in Sessions, k \in 1..MaxProducers}

ConsumerBudget == Count(consumerObjs) + CountPc({"C2", "C2m", "C3"}) < MaxConsumers

(* routes.ts:400-410 and part_001:175-196: up to the await of createConsumerTransport *)
RecvConsume(s, producerId) ==
  /\ Frame(s)
  /\ Heard(s)
  /\ IF currentRoom[s] = NoRoom
     THEN Step(h, sendError(s, NotInARoom), s)
     ELSE IF HasRecvTransport(participantTransports, s)
     THEN /\ ConsumerBudget
          /\ Step([h EXCEPT ![s] = Append(@,
                   Handler("consume", "C2m", NoRoom,
                           participantTransports[s].recvTransport, 0, producerId, FALSE))],
                  << >>, s)
     ELSE /\ ConsumerBudget
          /\ TransportBudget
          /\ Step([h EXCEPT ![s] = Append(@,
                   Handler("consume", "C2", NoRoom, 0, 0, producerId, FALSE))],
                  << >>, s)
  /\ UNCHANGED <<sock, isAlive, currentRoom, rooms, facadeVars, owed, capsJoined>>

(* the catch of handleConsume without the test of routes.ts:438-441: the error
   is written and no producer-closed follows *)
ConsumeCallErrorOnly(s, i, F, tid, capsOk, c) ==
  LET hd == h[s][i]
      chk == ConsumeChecks(F, s, hd.prod, capsOk)
  IN IF chk = "ok"
     THEN Step([h EXCEPT ![s][i] = [hd EXCEPT !.pc = "C3", !.tid = tid,
                                               !.rt = F.pt[s].recvTransport, !.alias = TRUE]],
               << >>, c)
     ELSE Step([h EXCEPT ![s] = RemoveAt(@, i)], sendError(s, FailedToCreateConsumer), c)

(* routes.ts:413-417 with part_001:296-318, and the catch at routes.ts:430-450:
   mediasoup.consume up to recvTransport.consume, on the facade state F, with
   tid the transport whose options createConsumerTransport returned *)
ConsumeCall(s, i, F, tid, capsOk, c) ==
  LET hd == h[s][i]
      chk == ConsumeChecks(F, s, hd.prod, capsOk)
  IN IF chk = "ok"
     THEN Step([h EXCEPT ![s][i] = [hd EXCEPT !.pc = "C3", !.tid = tid,
                                               !.rt = F.pt[s].recvTransport, !.alias = TRUE]],
               << >>, c)
     ELSE Step([h EXCEPT ![s] = RemoveAt(@, i)],
               sendError(s, FailedToCreateConsumer)
                 \o sendToClient(s, "producer-closed", hd.prod, 0, FALSE), c)

(* part_001:196-219 router.createWebRtcTransport returned *)
ResumeConsumeC2(s, i, capsOk) ==
  LET F1 == createConsumerTransport(Facade, s)
  IN /\ Macro
     /\ i \in 1..Len(h[s])
     /\ h[s][i].pc = "C2"
     /\ SetFacade(F1)
     /\ ConsumeCall(s, i, F1, F1.pt[s].recvTransport, capsOk, 0)
     /\ UNCHANGED <<sock, isAlive, currentRoom, rooms, silentTicks, owed, capsJoined>>

(* part_001:196-219 and routes.ts:410-417: the worker's answers to the
   router.createWebRtcTransport calls of two handlers of one session are read in
   one chunk, so both promises are resolved before any continuation runs: the
   continuations then alternate, both handlers store their transport (part_001:212)
   before either calls mediasoup.consume (routes.ts:413), which reads
   participantData.recvTransport (part_001:313); i is the handler answered first *)
ResumeConsumeC2Batch(s, i, j, capsOk) ==
  LET F1 == createConsumerTransport(Facade, s)
      F2 == createConsumerTransport(F1, s)
      Called(k, tid) ==
        IF ConsumeChecks(F2, s, h[s][k].prod, capsOk) = "ok"
        THEN [h[s][k] EXCEPT !.pc = "C3", !.tid = tid,
                             !.rt = F2.pt[s].recvTransport, !.alias = TRUE]
        ELSE [h[s][k] EXCEPT !.pc = "thrown"]
      Thrown(k) ==
        IF ConsumeChecks(F2, s, h[s][k].prod, capsOk) = "ok" THEN << >>
        ELSE sendError(s, FailedToCreateConsumer)
               \o sendToClient(s, "producer-closed", h[s][k].prod, 0, FALSE)
      hs == [k \in 1..Len(h[s]) |->
               IF k = i THEN Called(i, F1.pt[s].recvTransport)
               ELSE IF k = j THEN Called(j, F2.pt[s].recvTransport)
               ELSE h[s][k]]
      Suspended(x) == x.pc # "thrown"
  IN /\ Macro
     /\ i \in 1..Len(h[s]) /\ j \in 1..Len(h[s]) /\ i # j
     /\ h[s][i].pc = "C2" /\ h[s][j].pc = "C2"
     /\ SetFacade(F2)
     /\ Step([h EXCEPT ![s] = SelectSeq(hs, Suspended)], Thrown(i) \o Thrown(j), 0)
     /\ UNCHANGED <<sock, isAlive, currentRoom, rooms, silentTicks, owed, capsJoined>>

(* part_001:176-185 the existing receive transport was returned *)
ResumeConsumeC2m(s, i, capsOk) ==
  /\ i \in 1..Len(h[s])
  /\ h[s][i].pc = "C2m"
  /\ ConsumeCall(s, i, Facade, h[s][i].tid, capsOk, cur)
  /\ UNCHANGED <<sock, isAlive, currentRoom, rooms, facadeVars, silentTicks, owed,
                 capsJoined>>

(* part_001:320-330 and routes.ts:419-450: recvTransport.consume returned or threw;
   gone: whether the text of mediasoup's error matches routes.ts:438-441 *)
ResumeConsumeC3(s, i, gone) ==
  LET hd == h[s][i]
      F == Facade
  IN /\ Macro
     /\ i \in 1..Len(h[s])
     /\ hd.pc = "C3"
     /\ IF Obj(transports, hd.rt).closed \/ ~ProducerLive(F, hd.prod)
        THEN /\ Step([h EXCEPT ![s] = RemoveAt(@, i)],
                     sendError(s, FailedToCreateConsumer)
                       \o (IF gone THEN sendToClient(s, "producer-closed", hd.prod, 0, FALSE)
                           ELSE << >>), 0)
             /\ UNCHANGED facadeVars
        ELSE /\ SetFacade(consume(F, s, hd.prod, hd.rt, hd.alias))
             /\ Step([h EXCEPT ![s] = RemoveAt(@, i)],
                     sendToClient(s, "consume-response", hd.prod, 0, FALSE), 0)
     /\ UNCHANGED <<sock, isAlive, currentRoom, rooms, silentTicks, owed, capsJoined>>

(* -------- CONNECT_TRANSPORT (routes.ts:151-153, part_001:223-247) -------- *)

RecvConnectTransport(s, tid) ==
  /\ Frame(s)
  /\ Heard(s)
  /\ IF ~FindTransport(participantTransports, tid)
     THEN Step(h, sendError(s, FailedToProcess), s)
     ELSE Step([h EXCEPT ![s] = Append(@,
                Handler("connect", "T2", NoRoom, tid, 0, 0, FALSE))], << >>, s)
  /\ UNCHANGED <<sock, isAlive, currentRoom, rooms, facadeVars, owed, capsJoined>>

(* the CONNECT_TRANSPORT case with a rejection of transport.connect swallowed
   instead of reaching the catch of routes.ts:206-212 *)
ResumeConnectTransportSilent(s, i, ok) ==
  LET hd == h[s][i]
  IN /\ Macro
     /\ i \in 1..Len(h[s])
     /\ hd.pc = "T2"
     /\ transports' = IF ok /\ ~Obj(transports, hd.tid).closed
                      THEN [transports EXCEPT ![Owner(hd.tid)][Rank(hd.tid)].connected = TRUE]
                      ELSE transports
     /\ Step([h EXCEPT ![s] = RemoveAt(@, i)], << >>, 0)
     /\ UNCHANGED <<sock, isAlive, currentRoom, rooms, participantTransports, producers,
                    consumers, producerObjs, consumerObjs, silentTicks, owed, capsJoined>>

(* part_001:246 transport.connect returned or threw *)
ResumeConnectTransport(s, i, ok) ==
  LET hd == h[s][i]
  IN /\ Macro
     /\ i \in 1..Len(h[s])
     /\ hd.pc = "T2"
     /\ IF ok /\ ~Obj(transports, hd.tid).closed
        THEN /\ transports' = [transports EXCEPT ![Owner(hd.tid)][Rank(hd.tid)].connected = TRUE]
             /\ Step([h EXCEPT ![s] = RemoveAt(@, i)], << >>, 0)
        ELSE /\ Step([h EXCEPT ![s] = RemoveAt(@, i)],
                     sendError(s, FailedToProcess), 0)
             /\ UNCHANGED transports
     /\ UNCHANGED <<sock, isAlive, currentRoom, rooms, participantTransports, producers,
                    consumers, producerObjs, consumerObjs, silentTicks, owed, capsJoined>>


(* -------- NICKNAME_CHANGE (routes.ts:120-149) -------- *)

(* the NICKNAME_CHANGE case without the confirmation of routes.ts:138-146 *)
RecvNicknameChangeNoEcho(s) ==
  /\ Frame(s)
  /\ Heard(s)
  /\ Step(h,
          IF currentRoom[s] # NoRoom
          THEN notifyParticipants(rooms[currentRoom[s]], s, "nickname-change", 0, s, FALSE)
          ELSE << >>, s)
  /\ UNCHANGED <<sock, isAlive, currentRoom, rooms, facadeVars, owed, capsJoined>>

RecvNicknameChange(s) ==
  /\ Frame(s)
  /\ Heard(s)
  /\ Step(h,
          IF currentRoom[s] # NoRoom
          THEN notifyParticipants(rooms[currentRoom[s]], s, "nickname-change", 0, s, FALSE)
                 \o sendToClient(s, "nickname-change", 0, s, TRUE)
          ELSE << >>, s)
  /\ UNCHANGED <<sock, isAlive, currentRoom, rooms, facadeVars, owed, capsJoined>>

(* the PARTICIPANT_KILLED case closing the producer of a participant that is
   marked killed, which the comment at routes.ts:186-188 rules out *)
RecvParticipantKilledClosing(s, killed) ==
  LET r == currentRoom[s]
      found == r # NoRoom /\ s \in DOMAIN rooms[r]
  IN /\ Frame(s)
     /\ Heard(s)
     /\ rooms' = IF found THEN [rooms EXCEPT ![r][s].isKilled = killed] ELSE rooms
     /\ IF found /\ killed /\ rooms[r][s].producerId # 0
        THEN SetFacade(closeProducer(Facade, rooms[r][s].producerId))
        ELSE UNCHANGED facadeVars
     /\ Step(h,
             IF found
             THEN notifyParticipants(rooms[r], s, "participant-killed", 0, s, killed)
             ELSE << >>, s)
     /\ UNCHANGED <<sock, isAlive, currentRoom, owed, capsJoined>>

(* -------- PARTICIPANT_KILLED (routes.ts:173-201) -------- *)

RecvParticipantKilled(s, killed) ==
  LET r == currentRoom[s]
      found == r # NoRoom /\ s \in DOMAIN rooms[r]
  IN /\ Frame(s)
     /\ Heard(s)
     /\ rooms' = IF found THEN [rooms EXCEPT ![r][s].isKilled = killed] ELSE rooms
     /\ Step(h,
             IF found
             THEN notifyParticipants(rooms[r], s, "participant-killed", 0, s, killed)
             ELSE << >>, s)
     /\ UNCHANGED <<sock, isAlive, currentRoom, facadeVars, owed, capsJoined>>

(* -------- frames no case handles (routes.ts:108-111, 203-212) -------- *)

(* routes.ts:109 JSON.parse throws inside the try: the catch answers *)
RecvMalformed(s) ==
  /\ Frame(s)
  /\ Heard(s)
  /\ Step(h, sendError(s, FailedToProcess), s)
  /\ UNCHANGED <<sock, isAlive, currentRoom, rooms, facadeVars, owed, capsJoined>>

(* routes.ts:203-204 the default case: console.warn and nothing else *)
RecvUnknown(s) ==
  /\ Frame(s)
  /\ Heard(s)
  /\ Step(h, << >>, s)
  /\ UNCHANGED <<sock, isAlive, currentRoom, rooms, facadeVars, owed, capsJoined>>

(* -------- the server -------- *)

Next ==
  \/ \E s \in Sessions : Connect(s)
  \/ \E s \in Sessions : RecvMalformed(s)
  \/ \E s \in Sessions : RecvUnknown(s)
  \/ \E s \in Sessions : Pong(s)
  \/ Heartbeat
  \/ \E s \in Sessions : RecvPing(s)
  \/ \E s \in Sessions, roomId \in JoinRoomIds : RecvJoinCaps(s, roomId)
  \/ \E s \in Sessions, roomId \in JoinRoomIds, caps \in BOOLEAN : RecvJoin(s, roomId, caps)
  \/ \E s \in Sessions, i \in 1..MaxInflight : ResumeJoin(s, i)
  \/ \E s \in Sessions : RecvLeave(s)
  \/ \E s \in Sessions : ClientClose(s)
  \/ \E s \in Sessions : CloseEvent(s)
  \/ \E s \in Sessions, i \in 1..MaxInflight : ResumeLeaveL2(s, i)
  \/ \E s \in Sessions, i \in 1..MaxInflight : ResumeLeaveL3(s, i)
  \/ \E s \in Sessions, tid \in TransportIds : RecvProduce(s, tid)
  \/ \E s \in Sessions, i \in 1..MaxInflight, ok \in BOOLEAN : ResumeProduce(s, i, ok)
  \/ \E s \in Sessions, producerId \in ProducerIds : RecvConsume(s, producerId)
  \/ \E s \in Sessions, i \in 1..MaxInflight, capsOk \in BOOLEAN : ResumeConsumeC2(s, i, capsOk)
  \/ \E s \in Sessions, i \in 1..MaxInflight, j \in 1..MaxInflight, capsOk \in BOOLEAN :
        ResumeConsumeC2Batch(s, i, j, capsOk)
  \/ \E s \in Sessions, i \in 1..MaxInflight, capsOk \in BOOLEAN : ResumeConsumeC2m(s, i, capsOk)
  \/ \E s \in Sessions, i \in 1..MaxInflight, gone \in BOOLEAN : ResumeConsumeC3(s, i, gone)
  \/ \E s \in Sessions, tid \in TransportIds : RecvConnectTransport(s, tid)
  \/ \E s \in Sessions, i \in 1..MaxInflight, ok \in BOOLEAN : ResumeConnectTransport(s, i, ok)
  \/ \E s \in Sessions : RecvNicknameChange(s)
  \/ \E s \in Sessions, killed \in BOOLEAN : RecvParticipantKilled(s, killed)

Spec == Init /\ [][Next]_vars

(* -------- parts of the server's behaviour -------- *)

(* the client sends a frame once the handlers of its earlier frames have finished *)
Idle(s) == Len(h[s]) = 0

(* Rooms: sessions join either room, produce and close; each client sends one
   frame at a time *)
NextRooms ==
  \/ \E s \in Sessions : Connect(s)
  \/ \E s \in Sessions, roomId \in JoinRoomIds : Idle(s) /\ RecvJoinCaps(s, roomId)
  \/ \E s \in Sessions, roomId \in JoinRoomIds, caps \in BOOLEAN :
        Idle(s) /\ RecvJoin(s, roomId, caps)
  \/ \E s \in Sessions, i \in 1..MaxInflight : ResumeJoin(s, i)
  \/ \E s \in Sessions : ClientClose(s)
  \/ \E s \in Sessions : CloseEvent(s)
  \/ \E s \in Sessions, i \in 1..MaxInflight : ResumeLeaveL2(s, i)
  \/ \E s \in Sessions, i \in 1..MaxInflight : ResumeLeaveL3(s, i)
  \/ \E s \in Sessions, tid \in TransportIds : Idle(s) /\ RecvProduce(s, tid)
  \/ \E s \in Sessions, i \in 1..MaxInflight, ok \in BOOLEAN : ResumeProduce(s, i, ok)

SpecRooms == Init /\ [][NextRooms]_vars

(* Sessions: sessions of the default room join, produce, leave and close; each
   client sends one frame at a time *)
NextSessions ==
  \/ \E s \in Sessions : Connect(s)
  \/ \E s \in Sessions : Idle(s) /\ RecvJoinCaps(s, "")
  \/ \E s \in Sessions, caps \in BOOLEAN : Idle(s) /\ RecvJoin(s, "", caps)
  \/ \E s \in Sessions, i \in 1..MaxInflight : ResumeJoin(s, i)
  \/ \E s \in Sessions : Idle(s) /\ RecvLeave(s)
  \/ \E s \in Sessions : ClientClose(s)
  \/ \E s \in Sessions : CloseEvent(s)
  \/ \E s \in Sessions, i \in 1..MaxInflight : ResumeLeaveL2(s, i)
  \/ \E s \in Sessions, i \in 1..MaxInflight : ResumeLeaveL3(s, i)
  \/ \E s \in Sessions, tid \in TransportIds : Idle(s) /\ RecvProduce(s, tid)
  \/ \E s \in Sessions, i \in 1..MaxInflight, ok \in BOOLEAN : ResumeProduce(s, i, ok)

SpecSessions == Init /\ [][NextSessions]_vars

(* Overlap: sessions of the default room whose frames arrive while the handlers
   of their earlier frames are suspended; no session ends *)
NextOverlap ==
  \/ \E s \in Sessions : Connect(s)
  \/ \E s \in Sessions : RecvJoinCaps(s, "")
  \/ \E s \in Sessions, caps \in BOOLEAN : RecvJoin(s, "", caps)
  \/ \E s \in Sessions, i \in 1..MaxInflight : ResumeJoin(s, i)
  \/ \E s \in Sessions, tid \in TransportIds : RecvProduce(s, tid)
  \/ \E s \in Sessions, i \in 1..MaxInflight, ok \in BOOLEAN : ResumeProduce(s, i, ok)
  \/ \E s \in Sessions, producerId \in ProducerIds : RecvConsume(s, producerId)
  \/ \E s \in Sessions, i \in 1..MaxInflight, capsOk \in BOOLEAN : ResumeConsumeC2(s, i, capsOk)
  \/ \E s \in Sessions, i \in 1..MaxInflight, capsOk \in BOOLEAN : ResumeConsumeC2m(s, i, capsOk)
  \/ \E s \in Sessions, i \in 1..MaxInflight, gone \in BOOLEAN : ResumeConsumeC3(s, i, gone)

SpecOverlap == Init /\ [][NextOverlap]_vars

(* Gateway: the heartbeat, with sessions that join and leave the default room *)
NextGateway ==
  \/ \E s \in Sessions : Connect(s)
  \/ \E s \in Sessions : Pong(s)
  \/ Heartbeat
  \/ \E s \in Sessions : RecvPing(s)
  \/ \E s \in Sessions : Idle(s) /\ RecvJoin(s, "", FALSE)
  \/ \E s \in Sessions : Idle(s) /\ RecvJoinCaps(s, "")
  \/ \E s \in Sessions, i \in 1..MaxInflight : ResumeJoin(s, i)
  \/ \E s \in Sessions : Idle(s) /\ RecvLeave(s)
  \/ \E s \in Sessions : ClientClose(s)
  \/ \E s \in Sessions : CloseEvent(s)
  \/ \E s \in Sessions, i \in 1..MaxInflight : ResumeLeaveL3(s, i)
  \/ \E s \in Sessions : Idle(s) /\ RecvNicknameChange(s)

SpecGateway == Init /\ [][NextGateway]_vars

(* Frames: sessions of the default room that also send frames no case handles *)
NextFrames ==
  \/ \E s \in Sessions : Connect(s)
  \/ \E s \in Sessions : Idle(s) /\ RecvJoin(s, "", FALSE)
  \/ \E s \in Sessions : Idle(s) /\ RecvJoinCaps(s, "")
  \/ \E s \in Sessions, i \in 1..MaxInflight : ResumeJoin(s, i)
  \/ \E s \in Sessions : RecvMalformed(s)
  \/ \E s \in Sessions : RecvUnknown(s)
  \/ \E s \in Sessions : RecvPing(s)
  \/ \E s \in Sessions : ClientClose(s)
  \/ \E s \in Sessions : CloseEvent(s)
  \/ \E s \in Sessions, i \in 1..MaxInflight : ResumeLeaveL3(s, i)

SpecFrames == Init /\ [][NextFrames]_vars

(* Consume: sessions of the default room join, produce, ask to consume and close;
   each client sends one frame at a time *)
NextConsume ==
  \/ \E s \in Sessions : Connect(s)
  \/ \E s \in Sessions : Idle(s) /\ s \notin DOMAIN rooms[defaultRoom] /\ RecvJoin(s, "", FALSE)
  \/ \E s \in Sessions, i \in 1..MaxInflight : ResumeJoin(s, i)
  \/ \E s \in Sessions, tid \in TransportIds : Idle(s) /\ RecvProduce(s, tid)
  \/ \E s \in Sessions, i \in 1..MaxInflight, ok \in BOOLEAN : ResumeProduce(s, i, ok)
  \/ \E s \in Sessions, producerId \in ProducerIds : Idle(s) /\ RecvConsume(s, producerId)
  \/ \E s \in Sessions, i \in 1..MaxInflight, capsOk \in BOOLEAN : ResumeConsumeC2(s, i, capsOk)
  \/ \E s \in Sessions, i \in 1..MaxInflight, capsOk \in BOOLEAN : ResumeConsumeC2m(s, i, capsOk)
  \/ \E s \in Sessions, i \in 1..MaxInflight, gone \in BOOLEAN : ResumeConsumeC3(s, i, gone)
  \/ \E s \in Sessions : ClientClose(s)
  \/ \E s \in Sessions : CloseEvent(s)
  \/ \E s \in Sessions, i \in 1..MaxInflight : ResumeLeaveL2(s, i)
  \/ \E s \in Sessions, i \in 1..MaxInflight : ResumeLeaveL3(s, i)

SpecConsume == Init /\ [][NextConsume]_vars

(* BackToBack: sessions of the default room join, produce and leave; a frame may
   arrive while the handlers of the session's earlier frames are suspended *)
NextBackToBack ==
  \/ \E s \in Sessions : Connect(s)
  \/ \E s \in Sessions : RecvJoin(s, "", FALSE)
  \/ \E s \in Sessions, i \in 1..MaxInflight : ResumeJoin(s, i)
  \/ \E s \in Sessions : RecvLeave(s)
  \/ \E s \in Sessions, i \in 1..MaxInflight : ResumeLeaveL2(s, i)
  \/ \E s \in Sessions, i \in 1..MaxInflight : ResumeLeaveL3(s, i)
  \/ \E s \in Sessions, tid \in TransportIds : RecvProduce(s, tid)
  \/ \E s \in Sessions, i \in 1..MaxInflight, ok \in BOOLEAN : ResumeProduce(s, i, ok)

SpecBackToBack == Init /\ [][NextBackToBack]_vars

(* Errors: sessions of the default room send the frames that can be answered with
   an error: produce, request-consume, connect-transport (naming the session's
   first transport or none) and frames that do not parse; each client sends one
   frame at a time *)
NextErrors ==
  \/ \E s \in Sessions : Connect(s)
  \/ \E s \in Sessions : Idle(s) /\ s \notin DOMAIN rooms[defaultRoom] /\ RecvJoin(s, "", FALSE)
  \/ \E s \in Sessions, i \in 1..MaxInflight : ResumeJoin(s, i)
  \/ \E s \in Sessions, tid \in TransportIds : Idle(s) /\ RecvProduce(s, tid)
  \/ \E s \in Sessions, i \in 1..MaxInflight, ok \in BOOLEAN : ResumeProduce(s, i, ok)
  \/ \E s \in Sessions, producerId \in ProducerIds : Idle(s) /\ RecvConsume(s, producerId)
  \/ \E s \in Sessions, i \in 1..MaxInflight, capsOk \in BOOLEAN : ResumeConsumeC2(s, i, capsOk)
  \/ \E s \in Sessions, i \in 1..MaxInflight, capsOk \in BOOLEAN : ResumeConsumeC2m(s, i, capsOk)
  \/ \E s \in Sessions, i \in 1..MaxInflight, gone \in BOOLEAN : ResumeConsumeC3(s, i, gone)
  \/ \E s \in Sessions : \E tid \in {0, Id(s, 1)} :
        Idle(s) /\ RecvConnectTransport(s, tid)
  \/ \E s \in Sessions, i \in 1..MaxInflight, ok \in BOOLEAN : ResumeConnectTransport(s, i, ok)
  \/ \E s \in Sessions : Idle(s) /\ RecvMalformed(s)
  \/ \E s \in Sessions : ClientClose(s)
  \/ \E s \in Sessions : CloseEvent(s)
  \/ \E s \in Sessions, i \in 1..MaxInflight : ResumeLeaveL2(s, i)
  \/ \E s \in Sessions, i \in 1..MaxInflight : ResumeLeaveL3(s, i)

SpecErrors == Init /\ [][NextErrors]_vars

(* Presence: sessions join either room, produce on their own transports and send
   the frames that are only fanned out, participant-killed and nickname-change;
   each client sends one frame at a time and no session ends *)
NextPresence ==
  \/ \E s \in Sessions : Connect(s)
  \/ \E s \in Sessions, roomId \in JoinRoomIds : Idle(s) /\ RecvJoin(s, roomId, FALSE)
  \/ \E s \in Sessions, roomId \in JoinRoomIds : Idle(s) /\ RecvJoinCaps(s, roomId)
  \/ \E s \in Sessions, i \in 1..MaxInflight : ResumeJoin(s, i)
  \/ \E s \in Sessions, tid \in TransportIds :
        Idle(s) /\ Owner(tid) = s /\ RecvProduce(s, tid)
  \/ \E s \in Sessions, i \in 1..MaxInflight, ok \in BOOLEAN : ResumeProduce(s, i, ok)
  \/ \E s \in Sessions, killed \in BOOLEAN : Idle(s) /\ RecvParticipantKilled(s, killed)
  \/ \E s \in Sessions : Idle(s) /\ RecvNicknameChange(s)

SpecPresence == Init /\ [][NextPresence]_vars

(* Liveness: no low-level PONG ever arrives; session 1 sends nothing but
   application-level pings, the other sessions also join the default room; the
   heartbeat ticks and sessions close *)
NextLiveness ==
  \/ \E s \in Sessions : Connect(s)
  \/ Heartbeat
  \/ \E s \in Sessions : RecvPing(s)
  \/ \E s \in Sessions \ {1} : Idle(s) /\ RecvJoin(s, "", FALSE)
  \/ \E s \in Sessions \ {1} : Idle(s) /\ RecvJoinCaps(s, "")
  \/ \E s \in Sessions, i \in 1..MaxInflight : ResumeJoin(s, i)
  \/ \E s \in Sessions : ClientClose(s)
  \/ \E s \in Sessions : CloseEvent(s)
  \/ \E s \in Sessions, i \in 1..MaxInflight : ResumeLeaveL3(s, i)

SpecLiveness == Init /\ [][NextLiveness]_vars

(* Rejoin: sessions join either room without rtpCapabilities, produce on a
   transport of their own, and leave with a LEAVE frame, the socket staying
   open; each client sends one frame at a time *)
NextRejoin ==
  \/ \E s \in Sessions : Connect(s)
  \/ \E s \in Sessions, roomId \in JoinRoomIds : Idle(s) /\ RecvJoin(s, roomId, FALSE)
  \/ \E s \in Sessions, i \in 1..MaxInflight : ResumeJoin(s, i)
  \/ \E s \in Sessions, tid \in TransportIds :
        Idle(s) /\ Owner(tid) \in {0, s} /\ RecvProduce(s, tid)
  \/ \E s \in Sessions, i \in 1..MaxInflight, ok \in BOOLEAN : ResumeProduce(s, i, ok)
  \/ \E s \in Sessions : Idle(s) /\ RecvLeave(s)
  \/ \E s \in Sessions, i \in 1..MaxInflight : ResumeLeaveL2(s, i)
  \/ \E s \in Sessions, i \in 1..MaxInflight : ResumeLeaveL3(s, i)

SpecRejoin == Init /\ [][NextRejoin]_vars

(* Batch: sessions of the default room join, produce and ask to consume, a
   request-consume arriving while the handler of an earlier one is suspended;
   the worker's answers are read one by one or two in one chunk *)
NextBatch ==
  \/ \E s \in Sessions : Connect(s)
  \/ \E s \in Sessions : Idle(s) /\ s \notin DOMAIN rooms[defaultRoom] /\ RecvJoin(s, "", FALSE)
  \/ \E s \in Sessions, i \in 1..MaxInflight : ResumeJoin(s, i)
  \/ \E s \in Sessions, tid \in TransportIds :
        Idle(s) /\ Owner(tid) = s /\ RecvProduce(s, tid)
  \/ \E s \in Sessions, i \in 1..MaxInflight, ok \in BOOLEAN : ResumeProduce(s, i, ok)
  \/ \E s \in Sessions, producerId \in ProducerIds : RecvConsume(s, producerId)
  \/ \E s \in Sessions, i \in 1..MaxInflight, capsOk \in BOOLEAN : ResumeConsumeC2(s, i, capsOk)
  \/ \E s \in Sessions, i \in 1..MaxInflight, j \in 1..MaxInflight, capsOk \in BOOLEAN :
        ResumeConsumeC2Batch(s, i, j, capsOk)
  \/ \E s \in Sessions, i \in 1..MaxInflight, capsOk \in BOOLEAN : ResumeConsumeC2m(s, i, capsOk)
  \/ \E s \in Sessions, i \in 1..MaxInflight, gone \in BOOLEAN : ResumeConsumeC3(s, i, gone)

SpecBatch == Init /\ [][NextBatch]_vars

(* FanOut: sendToClient and notifyParticipants applied to a room of up to
   MaxMembers participants whose sockets are in any state a connected socket
   can be in *)
Members == 1..MaxMembers

InitFanOut ==
  /\ sock \in [Members -> {"open", "closing", "closed"}]
  /\ rooms \in {(defaultRoom :> [m \in D |-> NewParticipant]) : D \in SUBSET Members}
  /\ isAlive = [s \in Members |-> FALSE]
  /\ currentRoom = [s \in Members |-> defaultRoom]
  /\ h = [s \in Members |-> << >>]
  /\ cur = 0
  /\ participantTransports = << >>
  /\ producers = {}
  /\ consumers = {}
  /\ transports = [s \in Members |-> << >>]
  /\ producerObjs = [s \in Members |-> << >>]
  /\ consumerObjs = [s \in Members |-> << >>]
  /\ out = << >>
  /\ silentTicks = [s \in Members |-> 0]
  /\ owed = {}
  /\ capsJoined = {}
  /\ seen = [b \in Sessions |-> [a \in Sessions |-> NotSeen]]
  /\ client = NewClient

(* routes.ts:459-463 one message for one socket *)
SendOne(to, type) ==
  /\ out' = sendToClient(to, type, 0, 0, FALSE)
  /\ UNCHANGED <<sock, isAlive, currentRoom, rooms, h, cur, facadeVars, silentTicks,
                 owed, capsJoined, seen, client>>

(* routes.ts:466-476 one message for the room of senderId *)
FanOut(senderId, type) ==
  /\ out' = notifyParticipants(rooms[defaultRoom], senderId, type, 0, senderId, FALSE)
  /\ UNCHANGED <<sock, isAlive, currentRoom, rooms, h, cur, facadeVars, silentTicks,
                 owed, capsJoined, seen, client>>

(* the peer of m closes its connection: readyState leaves OPEN *)
PeerCloses(m) ==
  /\ sock[m] = "open"
  /\ sock' = [sock EXCEPT ![m] = "closing"]
  /\ out' = << >>
  /\ UNCHANGED <<isAlive, currentRoom, rooms, h, cur, facadeVars, silentTicks,
                 owed, capsJoined, seen, client>>

NextFanOut ==
  \/ \E to \in Members, type \in {"pong", "welcome"} : SendOne(to, type)
  \/ \E senderId \in Members, type \in {"disconnect", "nickname-change"} :
        FanOut(senderId, type)
  \/ \E m \in Members : PeerCloses(m)

SpecFanOut == InitFanOut /\ [][NextFanOut]_vars

(* -------- the signaling client as a process -------- *)

serverVars == <<sock, isAlive, currentRoom, rooms, h, cur, facadeVars, out,
                silentTicks, owed, capsJoined, seen>>

(* the application calls connect(stream) *)
AppConnect ==
  /\ Len(client.sockets) < MaxSockets
  /\ client' = [connect(client) EXCEPT !.disconnected = FALSE]
  /\ UNCHANGED serverVars

(* the application calls disconnect() *)
AppDisconnect ==
  /\ client' = [disconnect(client) EXCEPT !.disconnected = TRUE]
  /\ UNCHANGED serverVars

(* the connection of WebSocket k is established: its onopen runs *)
SocketOpens(k) ==
  /\ k \in 1..Len(client.sockets)
  /\ client.sockets[k] = "connecting"
  /\ client' = onopen([client EXCEPT !.sockets[k] = "open"])
  /\ UNCHANGED serverVars

(* WebSocket k fails to connect, loses its connection or completes the close
   that disconnect() started: its onclose runs *)
SocketCloses(k) ==
  /\ k \in 1..Len(client.sockets)
  /\ client.sockets[k] \in {"connecting", "open", "closing"}
  /\ Len(client.timers) < MaxTimers
  /\ client' = onclose([client EXCEPT !.sockets[k] = "closed"])
  /\ UNCHANGED serverVars

(* timer t expires; the timers all wait RECONNECT_INTERVAL, so they expire in
   the order they were set *)
TimerFires(t) ==
  /\ t \in 1..Len(client.timers)
  /\ client.timers[t] = "pending"
  /\ \A u \in 1..(t - 1) : client.timers[u] # "pending"
  /\ Len(client.sockets) < MaxSockets
  /\ client' = reconnect([client EXCEPT !.timers[t] = "fired"])
  /\ UNCHANGED serverVars

NextClient ==
  \/ AppConnect
  \/ AppDisconnect
  \/ \E k \in 1..MaxSockets : SocketOpens(k)
  \/ \E k \in 1..MaxSockets : SocketCloses(k)
  \/ \E t \in 1..MaxTimers : TimerFires(t)

SpecClient == Init /\ [][NextClient]_vars

(* -------- properties -------- *)

(* routes.ts:261, 386 the new-producer messages among msgs written to a socket *)
ProducerMsgs(msgs, to) ==
  {k \in 1..Len(msgs) : msgs[k].to = to /\ msgs[k].type = "new-producer"}

(* C1: when the JOIN with rtpCapabilities of a participant is processed, the
   participant is sent exactly one new-producer for every producer, not yet
   closed, of every other participant then in the room, and none for any other.
   E: the producers that exist, are not closed, and were made by a participant
   other than s that is in room r *)
C1_JoinAnnouncesExistingProducers ==
  [][\A s \in Sessions, roomId \in JoinRoomIds :
       RecvJoinCaps(s, roomId) =>
         LET r == JoinRoom(roomId)
             E == {p \in ProducerIds :
                     /\ ProducerLive(Facade, p)
                     /\ Obj(producerObjs, p).by # s
                     /\ Obj(producerObjs, p).by \in DOMAIN rooms[r]
                     /\ currentRoom[Obj(producerObjs, p).by] = r}
         IN /\ \A p \in E :
                 Cardinality({k \in ProducerMsgs(out', s) : out'[k].prod = p}) = 1
            /\ \A k \in ProducerMsgs(out', s) : out'[k].prod \in E]_vars

(* C2: a participant whose JOIN with rtpCapabilities was processed and who is
   still in the room is sent new-producer for every producer another participant
   of the room creates *)
C2_NewProducerReachesRoom ==
  [][\A s \in Sessions, i \in 1..MaxInflight :
       (ResumeProduce(s, i, TRUE) /\ currentRoom[s] # NoRoom /\ producers' # producers) =>
         \A b \in (DOMAIN rooms[currentRoom[s]] \cap capsJoined) \ {s} :
           (sock[b] = "open" /\ currentRoom[b] = currentRoom[s]) =>
             \E k \in ProducerMsgs(out', b) :
               /\ out'[k].about = s
               /\ {out'[k].prod} = producers' \ producers]_vars

(* a producer of a was just announced to b, who had joined with rtpCapabilities,
   after a had been told of the producer of b *)
C2_Witness ==
  \E a \in Sessions : \E b \in capsJoined \ {a} :
    /\ \E k \in 1..Len(out) : out[k].type = "produce-response" /\ out[k].to = a
    /\ \E k \in ProducerMsgs(out, b) : out[k].about = a
    /\ seen[a][b].p = "told"

(* C3: once the session of a has ended, every other participant still present that
   was sent new-producer for a has been sent exactly one disconnect for a and
   exactly one producer-closed for a's producer *)
C3_LeaveToldExactlyOnce ==
  \A a \in Sessions : \A b \in Sessions \ {a} :
    (sock[a] = "closed" /\ h[a] = << >>)
      => /\ seen[b][a].d \in {"none", "once"}
         /\ seen[b][a].p \in {"none", "once"}

(* C4: when every session has ended and every handler has finished,
   removeParticipant was called for each participant that joined, and the
   facade's three maps are empty *)
C4_NothingLeftAfterAllEnded ==
  (/\ \A s \in Sessions : sock[s] \in {"idle", "closed"} /\ h[s] = << >>
   /\ \E s \in Sessions : sock[s] = "closed")
    => /\ owed = {}
       /\ participantTransports = << >>
       /\ producers = {}
       /\ consumers = {}

(* C5: no produce, request-consume or connect-transport of a session succeeds
   before its JOIN with rtpCapabilities was processed *)
C5_NoMediaBeforeBothJoins ==
  [][\A s \in Sessions, i \in 1..MaxInflight :
       (\/ ResumeProduce(s, i, TRUE) /\ producers' # producers
        \/ (\E gone \in BOOLEAN : ResumeConsumeC3(s, i, gone)) /\ consumers' # consumers
        \/ ResumeConnectTransport(s, i, TRUE) /\ transports' # transports)
       => s \in capsJoined]_vars

(* C6: a message about one participant is written only to participants of the
   room that participant is in *)
C6_NoCrossRoomFanOut ==
  \A k \in 1..Len(out) :
    (/\ out[k].type \in {"new-producer", "producer-closed", "disconnect",
                         "nickname-change", "participant-killed"}
     /\ out[k].about \in Sessions
     /\ out[k].about # out[k].to)
      => currentRoom[out[k].to] = currentRoom[out[k].about]

(* C7: a participant id is a key of at most one room's map *)
C7_InAtMostOneRoom ==
  \A s \in Sessions : Cardinality({r \in DOMAIN rooms : s \in DOMAIN rooms[r]}) <= 1

(* C8: whatever request-consume frames a participant sends, at most one receive
   transport is made for it *)
C8_OneReceiveTransport ==
  \A s \in Sessions :
    Cardinality({k \in 1..Len(transports[s]) :
                   transports[s][k].dir = "recv" /\ ~transports[s][k].closed}) <= 1

(* C9: a session that has sent nothing for two heartbeat ticks is no longer open:
   it was terminated by the second tick at the latest *)
C9_SilentSessionTerminated ==
  \A s \in Sessions : sock[s] = "open" => silentTicks[s] <= 1

(* a session the second silent tick terminated *)
C9_Witness ==
  \E s \in Sessions : sock[s] = "closing" /\ silentTicks[s] = 2 /\ ~isAlive[s]

(* C10: the handler of a frame does not start while the handler of an earlier
   frame of the same session is suspended *)
C10_FramesOneAtATime ==
  \A s \in Sessions :
    Cardinality({i \in 1..Len(h[s]) : h[s][i].op # "close"}) <= 1

(* C11: a participant attached by a JOIN without rtpCapabilities is sent no
   new-producer before its JOIN with rtpCapabilities is processed, and its first
   JOIN, welcome included, writes to no other member *)
C11_NoNewProducerBeforeCapabilities ==
  [][/\ \A k \in 1..Len(out') :
          out'[k].type = "new-producer" => out'[k].to \in capsJoined'
     /\ \A s \in Sessions, roomId \in JoinRoomIds, caps \in BOOLEAN :
          RecvJoin(s, roomId, caps) => out' = << >>
     /\ \A s \in Sessions, i \in 1..MaxInflight :
          ResumeJoin(s, i) => \A k \in 1..Len(out') : out'[k].to = s]_vars

(* C12: a JOIN with rtpCapabilities from a participant whose first JOIN completed
   (it is attached and its welcome was written) writes no welcome, starts no
   createTransport, writes to no other session, and changes nothing but the
   rtpCapabilities of the participant's record *)
C12_CapabilitiesJoinOnlyStores ==
  [][\A s \in Sessions, roomId \in JoinRoomIds :
       (/\ Idle(s)
        /\ currentRoom[s] # NoRoom
        /\ s \in DOMAIN rooms[currentRoom[s]]
        /\ RecvJoinCaps(s, roomId) \/ RecvJoin(s, roomId, TRUE))
       => /\ \A k \in 1..Len(out') : out'[k].to = s /\ out'[k].type # "welcome"
          /\ h' = h
          /\ UNCHANGED <<currentRoom, facadeVars>>
          /\ rooms' = [rooms EXCEPT ![currentRoom[s]][s].rtpCapabilities = TRUE]]_vars

(* C13: a JOIN without rtpCapabilities from a session that is Active (attached,
   capabilities stored) is answered with one error frame and nothing else: no
   welcome, no createTransport, and the participant's record keeps its producerId,
   rtpCapabilities and isKilled *)
C13_SecondPlainJoinIsAnError ==
  [][\A s \in Sessions, roomId \in JoinRoomIds :
       (/\ Idle(s)
        /\ currentRoom[s] # NoRoom
        /\ s \in DOMAIN rooms[currentRoom[s]]
        /\ rooms[currentRoom[s]][s].rtpCapabilities
        /\ RecvJoin(s, roomId, FALSE))
       => /\ Len(out') = 1 /\ out'[1].type = "error" /\ out'[1].to = s
          /\ h' = h
          /\ UNCHANGED <<currentRoom, rooms, facadeVars>>]_vars

(* C14: a JOIN with rtpCapabilities from a session that was sent no welcome (it is
   attached to no room and no JOIN of it is in progress) is answered with one
   error frame; the session is not attached to any room and no createTransport
   is started *)
C14_CapabilitiesJoinBeforeWelcomeIsAnError ==
  [][\A s \in Sessions, roomId \in JoinRoomIds :
       (/\ Idle(s)
        /\ currentRoom[s] = NoRoom
        /\ \A r \in DOMAIN rooms : s \notin DOMAIN rooms[r]
        /\ RecvJoin(s, roomId, TRUE))
       => /\ Len(out') = 1 /\ out'[1].type = "error" /\ out'[1].to = s
          /\ h' = h
          /\ currentRoom'[s] = NoRoom
          /\ \A r \in DOMAIN rooms' : s \notin DOMAIN rooms'[r]
          /\ UNCHANGED facadeVars]_vars

(* C15: when produce succeeds for a session that is attached and whose socket is
   open, the sender is written exactly one frame, the produce-response with the
   new producer's id; that id is stored on the sender's record; every other
   entry of the room with an open socket is written exactly one frame, the
   new-producer with that id and the sender's id; nobody else is written to *)
C15_ProduceAnswersAndAnnounces ==
  [][\A s \in Sessions, i \in 1..MaxInflight :
       (ResumeProduce(s, i, TRUE) /\ sock[s] = "open" /\ currentRoom[s] # NoRoom) =>
         \E p \in ProducerIds :
           /\ p \notin producers /\ p \in producers'
           /\ \E k \in 1..Len(out') :
                /\ out'[k] = Msg(s, "produce-response", p, 0, FALSE)
                /\ \A j \in 1..Len(out') : out'[j].to = s => j = k
           /\ rooms'[currentRoom[s]][s].producerId = p
           /\ \A m \in DOMAIN rooms[currentRoom[s]] \ {s} :
                sock[m] = "open" =>
                  \E k \in 1..Len(out') :
                    /\ out'[k] = Msg(m, "new-producer", p, s, FALSE)
                    /\ \A j \in 1..Len(out') : out'[j].to = m => j = k
           /\ \A k \in 1..Len(out') : out'[k].to \in DOMAIN rooms[currentRoom[s]]]_vars

(* a got the produce-response for the producer now on its record while b, in the
   same room, got the new-producer for it, and these are the only frames written *)
C15_Witness ==
  \E a \in Sessions : \E b \in Sessions \ {a} :
    /\ currentRoom[a] # NoRoom
    /\ {a, b} \subseteq DOMAIN rooms[currentRoom[a]]
    /\ rooms[currentRoom[a]][a].producerId # 0
    /\ out = << Msg(a, "produce-response", rooms[currentRoom[a]][a].producerId, 0, FALSE),
                Msg(b, "new-producer", rooms[currentRoom[a]][a].producerId, a, FALSE) >>

(* C16: every new-producer written names a producer that mediasoup.produce has
   already returned; a produce that fails, at the lookup of the transport or in
   transport.produce, writes neither new-producer nor produce-response *)
C16_NoAnnouncementBeforeProduceReturns ==
  [][/\ \A k \in 1..Len(out') :
          out'[k].type = "new-producer" => Exists(producerObjs', out'[k].prod)
     /\ \A s \in Sessions :
          ((\E tid \in TransportIds : RecvProduce(s, tid))
             \/ (\E i \in 1..MaxInflight : ResumeProduce(s, i, FALSE)))
          => \A k \in 1..Len(out') :
               out'[k].type \notin {"new-producer", "produce-response"}]_vars

(* the produce of a, attached with a send transport and with b in its room, has
   failed: a was written the error, no producer exists and b was written nothing *)
C16_Witness ==
  \E a \in Sessions : \E b \in Sessions \ {a} :
    /\ currentRoom[a] # NoRoom
    /\ {a, b} \subseteq DOMAIN rooms[currentRoom[a]]
    /\ sock[b] = "open"
    /\ a \in DOMAIN participantTransports
    /\ participantTransports[a].sendTransport # 0
    /\ Count(producerObjs) = 0
    /\ out = sendError(a, FailedToProcess)
    /\ out # << >>

(* C17: a produce frame from a session that is in no room, because it never
   joined or because its LEAVE has taken it out, starts no mediasoup.produce, changes
   neither the rooms nor the facade, and is answered with exactly one frame, the
   error 'Not in a room', to the sender *)
C17_ProduceOutsideRoomIsRefused ==
  [][\A s \in Sessions, tid \in TransportIds :
       (/\ RecvProduce(s, tid)
        /\ currentRoom[s] = NoRoom \/ \A r \in DOMAIN rooms : s \notin DOMAIN rooms[r])
       => /\ Len(out') = 1
          /\ out'[1].to = s /\ out'[1].type = "error" /\ out'[1].error = NotInARoom
          /\ h' = h
          /\ UNCHANGED <<sock, currentRoom, rooms, facadeVars>>]_vars

(* C18: when mediasoup.consume refuses a request-consume because the producer is
   gone or cannot be consumed with the given capabilities, the requester, if its
   socket is open, is written an error and exactly one producer-closed, for the
   producer it asked for; no consume-response is written, no consumer is
   created and no other session is written to.  When recvTransport.consume
   itself fails, the same holds with at most one producer-closed *)
C18_FailedConsumeClosesProducerForRequester ==
  [][\A s \in Sessions, i \in 1..MaxInflight :
       /\ \A capsOk \in BOOLEAN :
            (/\ ResumeConsumeC2(s, i, capsOk) \/ ResumeConsumeC2m(s, i, capsOk)
             /\ sock[s] = "open"
             /\ ~capsOk \/ ~ProducerLive(Facade, h[s][i].prod))
            => /\ \E k \in 1..Len(out') : out'[k].type = "error" /\ out'[k].to = s
               /\ Cardinality({k \in 1..Len(out') : out'[k].type = "producer-closed"}) = 1
               /\ \A k \in 1..Len(out') :
                    /\ out'[k].to = s
                    /\ out'[k].type \in {"error", "producer-closed"}
                    /\ out'[k].type = "producer-closed" => out'[k].prod = h[s][i].prod
               /\ consumers' = consumers
       /\ \A gone \in BOOLEAN :
            (/\ ResumeConsumeC3(s, i, gone)
             /\ sock[s] = "open"
             /\ consumers' = consumers)
            => /\ \E k \in 1..Len(out') : out'[k].type = "error" /\ out'[k].to = s
               /\ Cardinality({k \in 1..Len(out') : out'[k].type = "producer-closed"}) <= 1
               /\ \A k \in 1..Len(out') :
                    /\ out'[k].to = s
                    /\ out'[k].type \in {"error", "producer-closed"}
                    /\ out'[k].type = "producer-closed" => out'[k].prod = h[s][i].prod]_vars

(* b asked for the producer of a after a's session had ended and its producer was
   closed: b was written the error and the producer-closed, and nothing else *)
C18_Witness ==
  \E a \in Sessions : \E b \in Sessions \ {a} : \E p \in ProducerIds :
    /\ Exists(producerObjs, p)
    /\ Obj(producerObjs, p).by = a
    /\ Obj(producerObjs, p).closed
    /\ sock[a] = "closed"
    /\ Len(out) = 2
    /\ out[1].type = "error" /\ out[1].to = b /\ out[1].error = FailedToCreateConsumer
    /\ out[2] = Msg(b, "producer-closed", p, 0, FALSE)

(* C19: every error frame is written to the session whose frame was being
   handled, at its arrival or at the resumption of its handler, when the error
   arose; no other session is written an error *)
C19_ErrorsGoToTheOriginator ==
  [][\A k \in 1..Len(out') :
       out'[k].type = "error" =>
         LET s == out'[k].to
         IN \/ RecvMalformed(s)
            \/ \E tid \in TransportIds : RecvProduce(s, tid) \/ RecvConnectTransport(s, tid)
            \/ \E producerId \in ProducerIds : RecvConsume(s, producerId)
            \/ \E i \in 1..MaxInflight : ResumeLeaveL2(s, i)
            \/ \E i \in 1..MaxInflight, b \in BOOLEAN :
                 \/ ResumeProduce(s, i, b)
                 \/ ResumeConnectTransport(s, i, b)
                 \/ ResumeConsumeC2(s, i, b)
                 \/ ResumeConsumeC2m(s, i, b)
                 \/ ResumeConsumeC3(s, i, b)]_vars

(* a was written an error while b, in the same room with its socket open, was
   written nothing *)
C19_Witness ==
  \E a \in Sessions : \E b \in Sessions \ {a} :
    /\ {a, b} \subseteq DOMAIN rooms[defaultRoom]
    /\ sock[b] = "open"
    /\ \E k \in 1..Len(out) : out[k].type = "error" /\ out[k].to = a
    /\ \A k \in 1..Len(out) : out[k].to # b

(* C20: a frame that does not parse, and equally a frame that parses but whose
   type no case handles, is answered with exactly one error frame, to the
   sender; the rooms and the facade are unchanged and the session's socket stays
   open *)
C20_UnhandledFramesAnsweredOnce ==
  [][\A s \in Sessions :
       (RecvMalformed(s) \/ RecvUnknown(s))
       => /\ Len(out') = 1
          /\ out'[1].type = "error" /\ out'[1].to = s
          /\ UNCHANGED <<currentRoom, rooms, facadeVars>>
          /\ sock'[s] = "open"]_vars

(* C21: once the socket of a session is closed and every handler of the session,
   the cleanup of the close event included, has finished, no room's map holds
   the participant, so that no JOIN processed later is answered with a
   new-producer about it *)
C21_EndedSessionIsInNoRoom ==
  \A s \in Sessions :
    (sock[s] = "closed" /\ Len(h[s]) = 0) =>
      /\ \A r \in DOMAIN rooms : s \notin DOMAIN rooms[r]
      /\ \A k \in 1..Len(out) : out[k].type = "new-producer" => out[k].about # s

(* C22: when a JOIN with rtpCapabilities of b is processed, b, if its socket is
   open, is written exactly one participant-killed, with killed true, about
   every other participant of the room whose record has a producer and the
   killed flag set, and none about anybody else *)
C22_KilledFlagReachesJoiner ==
  [][\A b \in Sessions, roomId \in JoinRoomIds :
       (RecvJoinCaps(b, roomId) /\ sock[b] = "open") =>
         LET room == rooms[JoinRoom(roomId)]
             dead == {a \in DOMAIN room \ {b} : room[a].producerId # 0 /\ room[a].isKilled}
         IN /\ \A a \in dead :
                 Cardinality({k \in 1..Len(out') :
                    out'[k] = Msg(b, "participant-killed", 0, a, TRUE)}) = 1
            /\ \A k \in 1..Len(out') :
                 out'[k].type = "participant-killed" => out'[k].about \in dead]_vars

(* b was told, on its JOIN with rtpCapabilities, of the producer of a and that a
   is killed, while a's last participant-killed frame had set the flag *)
C22_Witness ==
  \E a \in Sessions : \E b \in capsJoined \ {a} :
    /\ currentRoom[a] # NoRoom
    /\ {a, b} \subseteq DOMAIN rooms[currentRoom[a]]
    /\ rooms[currentRoom[a]][a].isKilled
    /\ rooms[currentRoom[a]][a].producerId # 0
    /\ out = << Msg(b, "new-producer", rooms[currentRoom[a]][a].producerId, a, FALSE),
                Msg(b, "participant-killed", 0, a, TRUE) >>

(* C23: a participant-killed frame of a participant in a room sets the isKilled
   field of the sender's record to the value it carries and changes nothing else:
   no facade state, so the sender's producer stays as it is, no other field of
   any record; every other entry of the sender's room with an open socket is
   written exactly one participant-killed with that value and the sender's id,
   and nothing is written to the sender or to anybody else.  From a session in
   no room the frame changes nothing and nothing is written *)
C23_KilledFrameOnlySetsFlag ==
  [][\A s \in Sessions, killed \in BOOLEAN :
       RecvParticipantKilled(s, killed) =>
         /\ h' = h
         /\ UNCHANGED <<currentRoom, facadeVars>>
         /\ IF currentRoom[s] = NoRoom
            THEN rooms' = rooms /\ out' = << >>
            ELSE /\ rooms' = [rooms EXCEPT ![currentRoom[s]][s].isKilled = killed]
                 /\ \A m \in DOMAIN rooms[currentRoom[s]] \ {s} :
                      sock[m] = "open" =>
                        Cardinality({k \in 1..Len(out') :
                           out'[k] = Msg(m, "participant-killed", 0, s, killed)}) = 1
                 /\ \A k \in 1..Len(out') :
                      /\ out'[k].type = "participant-killed"
                      /\ out'[k].about = s /\ out'[k].flag = killed
                      /\ out'[k].to \in DOMAIN rooms[currentRoom[s]] \ {s}]_vars

(* a, whose producer is live, was marked killed, and b, in its room, was written
   the participant-killed about it *)
C23_Witness ==
  \E a \in Sessions : \E b \in Sessions \ {a} :
    /\ currentRoom[a] # NoRoom
    /\ {a, b} \subseteq DOMAIN rooms[currentRoom[a]]
    /\ rooms[currentRoom[a]][a].isKilled
    /\ ProducerLive(Facade, rooms[currentRoom[a]][a].producerId)
    /\ out = << Msg(b, "participant-killed", 0, a, TRUE) >>

(* C24: on a nickname-change frame of a participant in a room, the sender is
   written exactly one nickname-change, with isLocalChange, every other entry of
   the sender's room with an open socket is written exactly one nickname-change
   without it, nobody outside that room is written to, and neither the rooms
   nor the facade change *)
C24_NicknameChangeEchoedAndFannedOut ==
  [][\A s \in Sessions :
       (RecvNicknameChange(s) /\ currentRoom[s] # NoRoom) =>
         /\ h' = h
         /\ UNCHANGED <<currentRoom, rooms, facadeVars>>
         /\ Cardinality({k \in 1..Len(out') : out'[k].to = s}) = 1
         /\ \E k \in 1..Len(out') : out'[k] = Msg(s, "nickname-change", 0, s, TRUE)
         /\ \A m \in DOMAIN rooms[currentRoom[s]] \ {s} :
              sock[m] = "open" =>
                /\ Cardinality({k \in 1..Len(out') : out'[k].to = m}) = 1
                /\ \E k \in 1..Len(out') : out'[k] = Msg(m, "nickname-change", 0, s, FALSE)
         /\ \A k \in 1..Len(out') :
              out'[k].to \in DOMAIN rooms[currentRoom[s]] \cup {s}]_vars

(* a changed its nickname with b in its room: b was written the change and a
   the echo *)
C24_Witness ==
  \E a \in Sessions : \E b \in Sessions \ {a} :
    /\ currentRoom[a] # NoRoom
    /\ {a, b} \subseteq DOMAIN rooms[currentRoom[a]]
    /\ out = << Msg(b, "nickname-change", 0, a, FALSE),
                Msg(a, "nickname-change", 0, a, TRUE) >>

(* C25: a message for a session whose socket is not OPEN is not written, neither
   in the step that would send it nor in a later one, and a fan-out writes
   exactly one message to every entry of the room, but the sender, whose socket
   is OPEN, whatever the sockets of the other entries are *)
C25_UnwritableMemberIsSkipped ==
  [][/\ \A k \in 1..Len(out') : sock[out'[k].to] = "open"
     /\ \A to \in Members, type \in {"pong", "welcome"} :
          SendOne(to, type) =>
            out' = IF sock[to] = "open" THEN << Msg(to, type, 0, 0, FALSE) >> ELSE << >>
     /\ \A senderId \in Members, type \in {"disconnect", "nickname-change"} :
          FanOut(senderId, type) =>
            /\ \A m \in DOMAIN rooms[defaultRoom] \ {senderId} :
                 sock[m] = "open" =>
                   Cardinality({k \in 1..Len(out') :
                      out'[k] = Msg(m, type, 0, senderId, FALSE)}) = 1
            /\ \A k \in 1..Len(out') :
                 out'[k].to \in DOMAIN rooms[defaultRoom] \ {senderId}]_vars

(* a fan-out in a room of three: the entry before the last one is not writable,
   and the last one was written the message *)
C25_Witness ==
  \E senderId \in Members : \E m \in Members \ {senderId} : \E n \in Members \ {senderId} :
    /\ m < n
    /\ {senderId, m, n} \subseteq DOMAIN rooms[defaultRoom]
    /\ sock[m] # "open"
    /\ sock[n] = "open"
    /\ out = << Msg(n, "disconnect", 0, senderId, FALSE) >>

(* C26: once closeProducer has returned for a producer (it was created and is no
   longer in the producers map), the consumers map holds no consumer of it and
   no participant's own consumer map has an entry for it; closeProducer with
   an id no producer ever had leaves the facade as it is *)
C26_ClosedProducerLeavesNoConsumer ==
  \A p \in ProducerIds :
    /\ (Exists(producerObjs, p) /\ p \notin producers) =>
         /\ \A c \in consumers : Obj(consumerObjs, c).producerId # p
         /\ \A x \in DOMAIN participantTransports :
              p \notin DOMAIN participantTransports[x].consumers
    /\ ~Exists(producerObjs, p) => closeProducer(Facade, p) = Facade

(* C27: once removeParticipant has returned for a participant (its entry in
   participantTransports is gone), every transport created for it is closed and
   the consumers map holds no consumer created for it, also when it consumed
   the same producer more than once; removeParticipant for an id without an
   entry leaves the facade as it is *)
C27_RemovedParticipantLeavesNothing ==
  \A s \in Sessions :
    s \notin DOMAIN participantTransports =>
      /\ \A k \in 1..Len(transports[s]) : transports[s][k].closed
      /\ \A c \in consumers : Owner(c) # s
      /\ removeParticipant(Facade, s) = Facade

(* C28: every send transport created for a participant is the one stored for it
   in participantTransports or is closed *)
C28_OneSendTransport ==
  \A s \in Sessions : \A k \in 1..Len(transports[s]) :
    (transports[s][k].dir = "send" /\ ~transports[s][k].closed) =>
      /\ s \in DOMAIN participantTransports
      /\ participantTransports[s].sendTransport = Id(s, k)

(* C29: the facade never holds two open producers created on frames of the same
   participant *)
C29_OneOpenProducerPerParticipant ==
  \A p \in producers : \A q \in producers :
    (/\ p # q
     /\ Obj(producerObjs, p).by = Obj(producerObjs, q).by)
    => ~ProducerLive(Facade, p) \/ ~ProducerLive(Facade, q)

(* C30: mediasoup.produce creates a producer only on a send transport that some
   participant has stored and that connectTransport has connected: a produce
   frame naming no stored send transport starts nothing and leaves the facade
   as it is, and no producer is added on a transport that is not connected *)
C30_ProduceNeedsConnectedSendTransport ==
  [][\A s \in Sessions :
       /\ \A tid \in TransportIds :
            (RecvProduce(s, tid) /\ ~FindSendTransport(participantTransports, tid))
            => h' = h /\ UNCHANGED facadeVars
       /\ \A i \in 1..MaxInflight, ok \in BOOLEAN :
            (ResumeProduce(s, i, ok) /\ producers' # producers)
            => Obj(transports, h[s][i].tid).connected]_vars

(* C31: an application-level ping is answered with one pong, written to the
   sender, sets isAlive and leaves the rooms and the facade as they are; and
   session 1, whose only frames are pings and whose low-level PONGs never
   arrive, is terminated by the heartbeat only when a whole tick interval went
   by without a ping of it *)
C31_PingAnsweredAndKeepsAlive ==
  [][/\ \A s \in Sessions :
          RecvPing(s) =>
            /\ out' = <<Msg(s, "pong", 0, 0, FALSE)>>
            /\ isAlive'[s]
            /\ UNCHANGED <<rooms, currentRoom, facadeVars, capsJoined, sock>>
     /\ (Heartbeat /\ sock[1] = "open" /\ sock'[1] # "open") => silentTicks[1] >= 1]_vars

(* session 1 has just been answered a pong and is alive, while session 2, a
   member of the default room that went silent for two ticks, was terminated *)
C31_Witness ==
  /\ out = <<Msg(1, "pong", 0, 0, FALSE)>>
  /\ sock[1] = "open" /\ isAlive[1] /\ silentTicks[1] = 0
  /\ 2 \in DOMAIN rooms[defaultRoom]
  /\ sock[2] = "closing" /\ silentTicks[2] = 2

(* C32: when mediasoup.connectTransport or mediasoup.produce throws, at the
   arrival of the frame (no transport matches the id) or at the resumption of
   the handler, a sender whose socket is open is written exactly one error
   frame, nothing is written to any other session, no socket changes its state
   and the rooms (members, producerId, rtpCapabilities, isKilled) and the
   sessions' currentRoom are unchanged *)
C32_FacadeFailureAnsweredWithOneError ==
  [][\A s \in Sessions :
       (\/ \E tid \in TransportIds \cup {0} :
             \/ /\ RecvProduce(s, tid)
                /\ currentRoom[s] # NoRoom
                /\ ~FindSendTransport(participantTransports, tid)
             \/ /\ RecvConnectTransport(s, tid)
                /\ ~FindTransport(participantTransports, tid)
        \/ \E i \in 1..MaxInflight :
             \/ ResumeProduce(s, i, FALSE)
             \/ ResumeConnectTransport(s, i, FALSE))
       => /\ sock[s] = "open" =>
               /\ Len(out') = 1
               /\ out'[1].type = "error" /\ out'[1].to = s
          /\ \A k \in 1..Len(out') : out'[k].to = s
          /\ UNCHANGED <<sock, rooms, currentRoom, capsJoined>>]_vars

(* a member whose transport was never connected and who has no producer was
   written one 'Failed to process request' while the other member, its socket
   open, was written nothing *)
C32_Witness ==
  \E a \in Sessions : \E b \in Sessions \ {a} :
    /\ {a, b} \subseteq DOMAIN rooms[defaultRoom]
    /\ sock[a] = "open" /\ sock[b] = "open"
    /\ Len(out) = 1 /\ out[1].type = "error" /\ out[1].to = a
    /\ out[1].error = FailedToProcess
    /\ rooms[defaultRoom][a].producerId = 0
    /\ Len(transports[a]) >= 1 /\ ~transports[a][1].connected

(* C33: when the handler of a LEAVE frame has finished, the session's socket is
   open, its currentRoom is null and no room's map holds the participant; a
   session that has left and then sends a JOIN without rtpCapabilities is put in
   the map of the named (or default) room, createTransport stores a transport
   that did not exist before as its send transport and one welcome is written;
   and a produce of a session that has left and not joined again is answered
   with the error 'Not in a room', the facade unchanged *)
C33_LeaveThenJoinAttachesAnew ==
  [][\A s \in Sessions :
       LET Left == Len(h[s]) = 0 /\ currentRoom[s] = NoRoom /\ Len(transports[s]) >= 1
       IN /\ \A i \in 1..MaxInflight :
               (ResumeLeaveL3(s, i) /\ h[s][i].op = "leave")
               => /\ sock'[s] = "open"
                  /\ currentRoom'[s] = NoRoom
                  /\ \A r \in DOMAIN rooms' : s \notin DOMAIN rooms'[r]
          /\ \A roomId \in JoinRoomIds :
               (Left /\ RecvJoin(s, roomId, FALSE))
               => /\ s \in DOMAIN rooms'[JoinRoom(roomId)]
                  /\ currentRoom'[s] = JoinRoom(roomId)
                  /\ out' = << >>
          /\ \A i \in 1..MaxInflight :
               ResumeJoin(s, i)
               => /\ out' = <<Msg(s, "welcome", 0, 0, FALSE)>>
                  /\ Len(transports'[s]) = Len(transports[s]) + 1
                  /\ participantTransports'[s].sendTransport = Id(s, Len(transports'[s]))
                  /\ ~Obj(transports', Id(s, Len(transports'[s]))).closed
          /\ \A tid \in TransportIds :
               (Left /\ RecvProduce(s, tid))
               => /\ Len(out') = 1 /\ out'[1].to = s
                  /\ out'[1].type = "error" /\ out'[1].error = NotInARoom
                  /\ UNCHANGED facadeVars]_vars

(* C35: the cleanup of a session runs once: two handlers of one session are
   never suspended together in closeProducer for the same producer, and a run of
   handleLeave writes producer-closed or disconnect only in the step in which it
   takes the participant out of its room's map, so that a second run writes
   neither *)
C35_LeaveCleanupRunsOnce ==
  [][\A s \in Sessions :
       /\ \A i \in 1..Len(h'[s]) : \A j \in 1..Len(h'[s]) :
            (i # j /\ h'[s][i].pc = "L2" /\ h'[s][j].pc = "L2")
            => h'[s][i].prod # h'[s][j].prod
       /\ (\/ RecvLeave(s)
           \/ CloseEvent(s)
           \/ \E i \in 1..MaxInflight : ResumeLeaveL2(s, i))
          => \/ \A k \in 1..Len(out') : out'[k].type \notin {"producer-closed", "disconnect"}
             \/ \E r \in DOMAIN rooms : s \in DOMAIN rooms[r] /\ s \notin DOMAIN rooms'[r]]_vars

(* C36: a participant is written new-producer for one producerId at most once
   while it stays attached: no step writes it two of them, and none is written
   to a participant that has already been told about the producing participant
   when that participant has had a single producer so far *)
C36_NewProducerToldOnce ==
  [][/\ \A k \in 1..Len(out') : \A l \in 1..Len(out') :
          (k # l /\ out'[k].type = "new-producer" /\ out'[l].type = "new-producer"
                 /\ out'[k].to = out'[l].to)
          => out'[k].prod # out'[l].prod
     /\ \A k \in 1..Len(out') :
          (/\ out'[k].type = "new-producer"
           /\ out'[k].about \in Sessions \ {out'[k].to}
           /\ Len(producerObjs'[out'[k].about]) = 1)
          => seen[out'[k].to][out'[k].about].d = "none"]_vars

(* C37: a handler that resumes from a facade call after the cleanup of its
   session has completed (currentRoom is null again and no run of handleLeave
   is suspended) registers nothing for the participant: it adds no entry for it
   to participantTransports, no producer on a transport of it to producers and
   no consumer of it to consumers *)
C37_ResumedHandlerRegistersNothing ==
  [][\A s \in Sessions : \A i \in 1..MaxInflight :
       (/\ currentRoom[s] = NoRoom
        /\ \A j \in 1..Len(h[s]) : h[s][j].pc \notin {"L2", "L3"}
        /\ \/ ResumeJoin(s, i)
           \/ \E b \in BOOLEAN :
                \/ ResumeProduce(s, i, b)
                \/ ResumeConsumeC2(s, i, b)
                \/ ResumeConsumeC3(s, i, b))
       => /\ s \in DOMAIN participantTransports' => s \in DOMAIN participantTransports
          /\ \A p \in producers' \ producers : Owner(p) # s
          /\ \A c \in consumers' \ consumers : Owner(c) # s]_vars

(* C38: a consume-response is written only by a handler whose transportOptions,
   those createConsumerTransport returned to it, are of the receive transport
   on which mediasoup.consume created its consumer *)
C38_ResponseNamesConsumersTransport ==
  [][\A s \in Sessions : \A i \in 1..MaxInflight : \A gone \in BOOLEAN :
       (/\ ResumeConsumeC3(s, i, gone)
        /\ \E k \in 1..Len(out') : out'[k].type = "consume-response")
       => h[s][i].tid = h[s][i].rt]_vars

(* C39: media requests are scoped to the requester: a produce adds a producer,
   and a connect-transport connects a transport, only on a transport that was
   created for the session that sent the frame, and a consume-response is
   written only for a producer made on a frame of a participant that is in the
   map of the requester's current room *)
C39_MediaRequestsAreScoped ==
  [][\A s \in Sessions : \A i \in 1..MaxInflight :
       /\ (ResumeProduce(s, i, TRUE) /\ producers' # producers)
          => Owner(h[s][i].tid) = s
       /\ (ResumeConnectTransport(s, i, TRUE) /\ transports' # transports)
          => Owner(h[s][i].tid) = s
       /\ \A gone \in BOOLEAN :
            (/\ ResumeConsumeC3(s, i, gone)
             /\ \E k \in 1..Len(out') : out'[k].type = "consume-response")
            => /\ currentRoom[s] # NoRoom
               /\ Obj(producerObjs, h[s][i].prod).by \in DOMAIN rooms[currentRoom[s]]]_vars

(* C34: reconnectAttempts counts the automatic attempts made since a connection
   last opened: it changes only by one, when a reconnect timer expires, or back
   to 0, when a socket opens; it never exceeds MAX_RECONNECT_ATTEMPTS, and once
   it has reached it a close schedules no further reconnect *)
C34_ReconnectAttemptsBounded ==
  [][/\ client'.reconnectAttempts <= MAX_RECONNECT_ATTEMPTS
     /\ client'.reconnectAttempts # client.reconnectAttempts
        => \/ /\ \E t \in 1..MaxTimers : TimerFires(t)
              /\ client'.reconnectAttempts = client.reconnectAttempts + 1
           \/ /\ \E k \in 1..MaxSockets : SocketOpens(k)
              /\ client'.reconnectAttempts = 0
     /\ \A t \in 1..MaxTimers :
          TimerFires(t) => client'.reconnectAttempts = client.reconnectAttempts + 1
     /\ client.reconnectAttempts >= MAX_RECONNECT_ATTEMPTS
        => (\A k \in 1..MaxSockets : SocketCloses(k) => client'.timers = client.timers)]_vars

(* the client has given up: five automatic attempts were made after the first
   connection, every socket is closed and no timer is pending *)
C34_Witness ==
  /\ client.reconnectAttempts = MAX_RECONNECT_ATTEMPTS
  /\ Len(client.sockets) = MAX_RECONNECT_ATTEMPTS + 1
  /\ \A k \in 1..Len(client.sockets) : client.sockets[k] = "closed"
  /\ \A t \in 1..Len(client.timers) : client.timers[t] # "pending"
  /\ ~client.disconnected

(* C40: from a call of disconnect() until the application calls connect()
   again, the client sets no reconnect timer and makes no WebSocket, whatever
   events of its earlier sockets are delivered in between *)
C40_NoReconnectAfterDisconnect ==
  [][(client.disconnected /\ client'.disconnected)
     => /\ Len(client'.timers) = Len(client.timers)
        /\ Len(client'.sockets) = Len(client.sockets)]_vars

=============================================================================
